---- MODULE Spec2Model ----
(***************************************************************************)
(* Model of the report-extraction scripts of trackBI                       *)
(* (scripts/reporte_descargas.py, scripts/reporte_direccion_ingresos.py).  *)
(*                                                                         *)
(* The module holds one state machine per engine component:                *)
(*   SpecRetry   - ejecutar_con_reintentos                                 *)
(*   SpecClick   - click_boton_generar, click_tab, click_tab_membresia     *)
(*   SpecPoll    - the polling waits                                       *)
(*   SpecExtract - table discovery over the tables of a page               *)
(* A component that a specification does not run stays in its idle state.  *)
(***************************************************************************)
EXTENDS Integers, Sequences, FiniteSets, TLC

\* ------------------------------------------------------------------ bounds
\* Distinct results a job may return and distinct errors it may raise.
NumValues == 2
NumErrors == 3

Values == 1..NumValues
Errors == 1..NumErrors
\* Python's None.
None == 0

\* ------------------------------------------------------------------ state
\* Retry orchestrator.
VARIABLES
    nombre_reporte,  \* the job being run ("" when the wrapper is idle)
    rpc,             \* "idle" | "loop" (about to call fn) | "returned" | "raised"
    intento,         \* the for-loop variable, 1..MAX_RETRIES
    ultimo_error,    \* last exception caught, None before the first failure
    fnLog,           \* history: outcome of every invocation of fn, in order
    sleepLog,        \* history: duration of every time.sleep of the wrapper
    retVal,          \* value returned to the caller (None until it returns)
    raisedErr        \* error carried by the RuntimeError raised (None until then)

\* Multi-strategy click helpers.
VARIABLES
    helper,      \* the helper being run ("" when idle)
    cpc,         \* "idle" | "try" (about to attempt a strategy) | "returned" | "raised"
    estrategia,  \* index in Strategies(helper) of the strategy about to be attempted
    attemptLog,  \* history: [idx, ok, err] of every strategy attempted, in order
    clicks,      \* number of clicks that completed without raising
    surfaced     \* history: the exceptions that reached the caller, in order

\* Polling waits.
VARIABLES
    wait,        \* the wait being run, with its timeout and interval ("idle" record when idle)
    ppc,         \* "idle" | "poll" (at the loop test) | "ok" | "timeout" | "error"
    now,         \* seconds on the clock since the wait read its start time
    polls,       \* number of evaluations of the awaited condition so far
    pSleeps,     \* number of time.sleep calls so far
    evalTime,    \* history: seconds spent evaluating the condition (not sleeping)
    lastCond,    \* outcome of the latest evaluation: "none" | "true" | "false" | "raise"
    sawRaise,    \* history: some evaluation raised
    ultimo_tam,  \* esperar_archivo_descarga: size seen at the previous sighting, -1 at start
    antObs,      \* history: what the poll before the previous one observed of the file
    prevObs,     \* history: what the previous poll observed of the file (Absent or a size)
    curObs,      \* history: what the latest poll observed of the file
    ultimo_result, \* seleccionar_tipo_reporte: result of the latest evaluate, "None" at start
    sawData,     \* history: some poll observed the file with a size above zero
    pDf          \* obtener_tabla_con_sucursal: the DataFrame returned (NoDf until then)

\* Table extraction.
VARIABLES
    page,        \* the tables of the page: each a parse error or the list read_html gives
    xfn,         \* the extraction function applied ("" before the call)
    xres         \* its outcome: [status, df, at]

\* Header flattening.
VARIABLES
    adf,         \* the DataFrame aplanar_columnas is given
    aveces,      \* how many times aplanar_columnas was applied to it
    aprev,       \* the frame before the latest application
    ares         \* the frame the latest application returned

\* Download jobs and the files they leave in OUTPUT_DIR.
VARIABLES
    job,         \* the report job run under ejecutar_con_reintentos ("" when idle)
    jpc,         \* position in the job, see the actions
    jIntento,    \* attempt of ejecutar_con_reintentos, 1..MAX_RETRIES
    destino,     \* content of the target path: "none" | "old" | "fresh" | "partial" | "clean"
    tmp,         \* content of the .tmp.xlsx path: "none" | "partial" | "clean"
    lecturas,    \* limpiar_excel_inplace: reads that failed so far
    lDormido,    \* history: seconds limpiar_excel_inplace slept in this call
    alEntrar,    \* history: <<destino, tmp>> when limpiar_excel_inplace was entered
    causa,       \* history: the step whose exception ended the latest failed attempt
    sobrescrito, \* history: an artifact was written at the target while it held a file
    expLog,      \* history: the Exportar strategies acted through in this attempt, in order
    alInicio,    \* history: content of the target path when the attempt started
    cargando     \* esperar_fin_carga_venta_total: "none" | "no_visto" | "visto" | "desaparecio" | "colgado"

\* The scripts' main functions and run_todos_los_reportes.
VARIABLES
    script,      \* the script run_todos_los_reportes is running, 1 or 2 (0 when idle)
    mpc,         \* position in the script's main, see the actions
    jobIdx,      \* the job main gave to ejecutar_con_reintentos, 1..3
    mIntento,    \* the attempt of that job, 1..MAX_RETRIES
    esperaIdx,   \* the polling wait of the job the attempt is at (0 before the first)
    navegado,    \* the attempt has navigated to the report URL
    terminados,  \* history: the jobs of this script that returned, in order
    agotado,     \* history: the job of this script that used up its attempts (0: none)
    logueado,    \* history: main logged the error of this script
    exitoDicho,  \* history: main reported this script's success
    logins,      \* history: calls of hacer_login in this script
    codigos,     \* exit status of each script (NoCode while it has not ended)
    salida,      \* exit status of run_todos_los_reportes (NoCode while it runs)
    escritos     \* history: output files main itself has written in this script

retryVars ==
    <<nombre_reporte, rpc, intento, ultimo_error, fnLog, sleepLog, retVal, raisedErr>>
clickVars == <<helper, cpc, estrategia, attemptLog, clicks, surfaced>>
pollVars ==
    <<wait, ppc, now, polls, pSleeps, evalTime, lastCond, sawRaise, ultimo_tam, antObs,
      prevObs, curObs, sawData, ultimo_result, pDf>>
extVars == <<page, xfn, xres>>
aplVars == <<adf, aveces, aprev, ares>>
descVars ==
    <<job, jpc, jIntento, destino, tmp, lecturas, lDormido, alEntrar, causa, sobrescrito,
      expLog, alInicio, cargando>>
mainVars ==
    <<script, mpc, jobIdx, mIntento, esperaIdx, navegado, terminados, agotado, logueado,
      exitoDicho, logins, codigos, salida, escritos>>
vars == <<retryVars, clickVars, pollVars, extVars, aplVars, descVars, mainVars>>

\* ========================================================================
\* Retry orchestrator: ejecutar_con_reintentos(fn, nombre_reporte)
\* ========================================================================

MAX_RETRIES == 3
\* time.sleep(5) between attempts.
RETRY_DELAY == 5

\* The report jobs that main() hands to ejecutar_con_reintentos.
Reportes ==
    { "Reporte Corte De Caja", "Reporte Venta Total", "Reporte Cargos Recurrentes",
      "Reporte Direccion", "KPI Desempeno", "KPI Ventas Nuevos Socios" }

FnOk(v) == [ok |-> TRUE, val |-> v, err |-> None]
FnFail(e) == [ok |-> FALSE, val |-> None, err |-> e]

\* pc after fn() returned: `return fn()` leaves the function.
AfterOk_Continue(i) == IF i < MAX_RETRIES THEN "loop" ELSE "raised"
AfterOk(i) == "returned"

\* `ultimo_error = e` in the except block.
CaughtError_KeepFirst(old, e) == IF old = None THEN e ELSE old
CaughtError(old, e) == e

\* `if intento < MAX_RETRIES: time.sleep(5)`: the sleeps a failure of attempt i adds.
DelayAfterFail_OffByOne(i) == IF i < MAX_RETRIES - 1 THEN <<RETRY_DELAY>> ELSE <<>>
DelayAfterFail(i) == IF i < MAX_RETRIES THEN <<RETRY_DELAY>> ELSE <<>>

\* The for loop is over range(1, MAX_RETRIES + 1).
LoopHasNext(i) == i < MAX_RETRIES

\* fn() returns v: the wrapper returns it at once.
RetryAttemptOk(v) ==
    /\ rpc = "loop"
    /\ fnLog' = Append(fnLog, FnOk(v))
    /\ rpc' = AfterOk(intento)
    /\ retVal' = IF rpc' = "returned" THEN v ELSE retVal
    /\ intento' = IF rpc' = "loop" THEN intento + 1 ELSE intento
    /\ raisedErr' = IF rpc' = "raised" THEN ultimo_error ELSE raisedErr
    /\ UNCHANGED <<nombre_reporte, ultimo_error, sleepLog>>
    /\ UNCHANGED <<clickVars, pollVars, extVars, aplVars, descVars, mainVars>>

\* fn() raises e: it is recorded, the wrapper sleeps unless this was the last
\* attempt, and the loop goes on or, once exhausted, the RuntimeError is raised
\* with the last error in its message.
RetryAttemptFail(e) ==
    /\ rpc = "loop"
    /\ fnLog' = Append(fnLog, FnFail(e))
    /\ ultimo_error' = CaughtError(ultimo_error, e)
    /\ sleepLog' = sleepLog \o DelayAfterFail(intento)
    /\ IF LoopHasNext(intento)
         THEN /\ intento' = intento + 1
              /\ rpc' = "loop"
              /\ raisedErr' = raisedErr
         ELSE /\ intento' = intento
              /\ rpc' = "raised"
              /\ raisedErr' = ultimo_error'
    /\ UNCHANGED <<nombre_reporte, retVal>>
    /\ UNCHANGED <<clickVars, pollVars, extVars, aplVars, descVars, mainVars>>

RetryNext ==
    \/ \E v \in Values : RetryAttemptOk(v)
    \/ \E e \in Errors : RetryAttemptFail(e)

\* ========================================================================
\* Multi-strategy click helpers
\* ========================================================================

\* click_boton_generar exists in both scripts with the same three strategies.
Helpers == {"click_boton_generar", "click_boton_generar_ingresos", "click_tab", "click_tab_membresia"}

\* The strategies of each helper in the order the code tries them.  For
\* click_tab_membresia the outer loop runs over the texts with and without the
\* accent ("Membresia+tilde" stands for the accented spelling).
Strategies(h) ==
    CASE h = "click_boton_generar" ->
           << "get_by_role(button, Generar)", "button:has-text(Generar)", "get_by_text(Generar)" >>
      [] h = "click_boton_generar_ingresos" ->
           << "get_by_role(button, Generar)", "button:has-text(Generar)", "get_by_text(Generar)" >>
      [] h = "click_tab" ->
           << "get_by_role(button, nombre_tab)", "get_by_text(nombre_tab)" >>
      [] h = "click_tab_membresia" ->
           << "get_by_role(button, Membresia+tilde)", "a:has-text(Membresia+tilde)",
              "get_by_text(Membresia+tilde)",
              "get_by_role(button, Membresia)", "a:has-text(Membresia)",
              "get_by_text(Membresia)" >>

NumStrategies(h) == Len(Strategies(h))

RuntimeError == [kind |-> "RuntimeError", idx |-> 0, err |-> None]
StrategyError(i, e) == [kind |-> "strategy", idx |-> i, err |-> e]

\* The strategies named by the RuntimeError a helper raises after its last
\* strategy failed: its message is a literal (for click_tab it holds the tab
\* name), the strategies that were tried are not part of it.
EstrategiasEnError(h) == <<>>

\* What the except block of strategy i does: every block but the last one logs
\* (or passes) and falls through to the next strategy; after the last strategy
\* the helper raises its own RuntimeError.
OnStrategyFail_NoTry(h, i) ==
    IF i < NumStrategies(h) - 1 THEN "next"
    ELSE IF i = NumStrategies(h) - 1 THEN "propagate" ELSE "raise"
OnStrategyFail_RaiseInLoop(h, i) ==
    IF h = "click_tab_membresia" /\ i = 3 THEN "raise"
    ELSE IF i < NumStrategies(h) THEN "next" ELSE "raise"
OnStrategyFail(h, i) == IF i < NumStrategies(h) THEN "next" ELSE "raise"

\* What follows a click that did not raise: `return`.
OnStrategyOk_FallThrough(h, i) == IF i < NumStrategies(h) THEN "next" ELSE "return"
OnStrategyOk(h, i) == "return"

\* Strategy `estrategia` locates the element and clicks it without raising.
ClickAttemptOk ==
    /\ cpc = "try"
    /\ attemptLog' = Append(attemptLog, [idx |-> estrategia, ok |-> TRUE, err |-> None])
    /\ clicks' = clicks + 1
    /\ IF OnStrategyOk(helper, estrategia) = "return"
         THEN /\ cpc' = "returned"
              /\ estrategia' = estrategia
         ELSE /\ cpc' = "try"
              /\ estrategia' = estrategia + 1
    /\ UNCHANGED <<helper, surfaced>>
    /\ UNCHANGED <<retryVars, pollVars, extVars, aplVars, descVars, mainVars>>

\* Strategy `estrategia` raises e while locating or clicking.
ClickAttemptFail(e) ==
    /\ cpc = "try"
    /\ attemptLog' = Append(attemptLog, [idx |-> estrategia, ok |-> FALSE, err |-> e])
    /\ LET what == OnStrategyFail(helper, estrategia) IN
         CASE what = "next" ->
                /\ estrategia' = estrategia + 1
                /\ cpc' = "try"
                /\ surfaced' = surfaced
           [] what = "raise" ->
                /\ estrategia' = estrategia
                /\ cpc' = "raised"
                /\ surfaced' = Append(surfaced, RuntimeError)
           [] what = "propagate" ->
                /\ estrategia' = estrategia
                /\ cpc' = "raised"
                /\ surfaced' = Append(surfaced, StrategyError(estrategia, e))
    /\ UNCHANGED <<helper, clicks>>
    /\ UNCHANGED <<retryVars, pollVars, extVars, aplVars, descVars, mainVars>>

ClickNext ==
    \/ ClickAttemptOk
    \/ \E e \in Errors : ClickAttemptFail(e)

\* ========================================================================
\* Table discovery: aplanar_columnas, extraer_tabla_html,
\* extraer_tabla_principal_venta_total, the scan of obtener_tabla_con_sucursal
\* ========================================================================

\* Column labels are strings, modelled as sequences of characters so that
\* strip(), lower() and the substring test are computed, not assumed.
L_Sucursal == <<"S", "u", "c", "u", "r", "s", "a", "l">>
L_SUCURSAL_pad == <<" ", "S", "U", "C", "U", "R", "S", "A", "L", " ">>
L_IdSucursal == <<"I", "d", " ", "S", "u", "c", "u", "r", "s", "a", "l", " ">>
L_Sucur == <<"S", "u", "c", "u", "r">>
L_Total == <<"T", "o", "t", "a", "l">>
L_MetaCNM == <<"M", "e", "t", "a", " ", "C", "N", "M">>
L_NumeroCNM == <<"N", "u", "m", "e", "r", "o", " ", "d", "e", " ", "C", "N", "M", " ", "(", "M", "e", "t", "a", ")">>
L_Porcentaje == <<"P", "o", "r", "c", "e", "n", "t", "a", "j", "e">>
L_col_sin_nombre == <<"c", "o", "l", "_", "s", "i", "n", "_", "n", "o", "m", "b", "r", "e">>
\* str() of a missing header segment.
L_nan == <<"n", "a", "n">>
\* The needle of obtener_tabla_con_sucursal.
L_sucursal == <<"s", "u", "c", "u", "r", "s", "a", "l">>

UpperCase == <<"A", "B", "C", "D", "E", "F", "G", "H", "I", "J", "K", "L", "M", "N", "O", "P", "Q", "R", "S", "T", "U", "V", "W", "X", "Y", "Z">>
LowerCase == <<"a", "b", "c", "d", "e", "f", "g", "h", "i", "j", "k", "l", "m", "n", "o", "p", "q", "r", "s", "t", "u", "v", "w", "x", "y", "z">>

\* str.lower() on one character and on a string.
LowerChar(c) ==
    IF \E k \in 1..Len(UpperCase) : UpperCase[k] = c
    THEN LowerCase[CHOOSE k \in 1..Len(UpperCase) : UpperCase[k] = c]
    ELSE c
Lower(str) == [k \in 1..Len(str) |-> LowerChar(str[k])]

\* str.strip(): leading and trailing blanks removed.
RECURSIVE LStrip(_)
LStrip(str) == IF str # <<>> /\ Head(str) = " " THEN LStrip(Tail(str)) ELSE str
RECURSIVE RStrip(_)
RStrip(str) ==
    IF str # <<>> /\ str[Len(str)] = " " THEN RStrip(SubSeq(str, 1, Len(str) - 1)) ELSE str
Strip(str) == RStrip(LStrip(str))

\* Python's `needle in hay` on strings.
Contains(needle, hay) ==
    \E k \in 1..(Len(hay) - Len(needle) + 1) : SubSeq(hay, k, k + Len(needle) - 1) = needle

\* A DataFrame as far as the scripts look at it: its number of rows and its
\* column index.  With multi = TRUE the index is a MultiIndex and every column
\* is a tuple of header segments (outermost first); otherwise every column is
\* one label.
DataFrame(f, m, cols) == [filas |-> f, multi |-> m, columns |-> cols]
\* Python's None where a DataFrame is expected.
NoDf == [filas |-> -1, multi |-> FALSE, columns |-> <<>>]

\* df.shape and df.empty.
Filas(df) == df.filas
Columnas(df) == Len(df.columns)
Empty(df) == Filas(df) = 0 \/ Columnas(df) = 0

\* `partes = [str(x) for x in col if pd.notna(x) and str(x) != "nan"]`
Partes(col) == SelectSeq(col, LAMBDA x : x # L_nan)

\* The flat name of one column tuple: the last remaining part, stripped.
FlatName_First(col) ==
    IF Partes(col) # <<>> THEN Strip(Partes(col)[1]) ELSE L_col_sin_nombre
FlatName(col) ==
    IF Partes(col) # <<>> THEN Strip(Partes(col)[Len(Partes(col))]) ELSE L_col_sin_nombre

aplanar_columnas(df) ==
    IF df.multi
    THEN DataFrame(df.filas, FALSE, [k \in 1..Len(df.columns) |-> FlatName(df.columns[k])])
    ELSE df

\* `score = filas * columnas`
Score_Sum(df) == Filas(df) + Columnas(df)
Score(df) == Filas(df) * Columnas(df)

\* `if score > best_score`
IsBetter_OrEqual(score, best_score) == score >= best_score
IsBetter(score, best_score) == score > best_score

NoBest == [score |-> 0, df |-> NoDf, at |-> <<0, 0>>]

\* The inner loop `for df in df_list` of table i, from its j-th DataFrame on.
RECURSIVE BestInList(_, _, _, _, _)
BestInList(df_list, j, i, flatten, best) ==
    IF j > Len(df_list) THEN best
    ELSE IF Empty(df_list[j]) THEN BestInList(df_list, j + 1, i, flatten, best)
    ELSE LET df == IF flatten THEN aplanar_columnas(df_list[j]) ELSE df_list[j]
             score == Score(df)
         IN  BestInList(df_list, j + 1, i, flatten,
                        IF IsBetter(score, best.score)
                        THEN [score |-> score, df |-> df, at |-> <<i, j>>]
                        ELSE best)

\* The outer loop `for i in range(total)`: a table whose evaluate or read_html
\* raises is logged and skipped.
\* (variant: the first table that cannot be read ends the scan)
RECURSIVE BestInPage_AbortOnError(_, _, _, _)
BestInPage_AbortOnError(tables, i, flatten, best) ==
    IF i > Len(tables) THEN best
    ELSE IF tables[i].err THEN best
    ELSE BestInPage_AbortOnError(tables, i + 1, flatten,
                                 BestInList(tables[i].dfs, 1, i, flatten, best))

RECURSIVE BestInPage(_, _, _, _)
BestInPage(tables, i, flatten, best) ==
    IF i > Len(tables) THEN best
    ELSE IF tables[i].err THEN BestInPage(tables, i + 1, flatten, best)
    ELSE BestInPage(tables, i + 1, flatten, BestInList(tables[i].dfs, 1, i, flatten, best))

Outcome(st, df, at) == [status |-> st, df |-> df, at |-> at]
\* Before any extraction was applied.
NoOutcome == Outcome("none", NoDf, <<0, 0>>)

\* Both "largest table" functions; they differ in whether columns are flattened.
LargestTable(tables, flatten) ==
    IF Len(tables) = 0 THEN Outcome("no_tables", NoDf, <<0, 0>>)
    ELSE LET best == BestInPage(tables, 1, flatten, NoBest)
         IN  IF best.df = NoDf \/ Empty(best.df)
             THEN Outcome("no_principal", NoDf, <<0, 0>>)
             ELSE Outcome("ok", best.df, best.at)

extraer_tabla_html(tables) == LargestTable(tables, TRUE)
extraer_tabla_principal_venta_total(tables) == LargestTable(tables, FALSE)

\* `cols_lower = [str(c).strip().lower() ...]; any("sucursal" in c ...)`
TieneSucursal_Any(df) == TRUE
TieneSucursal(df) ==
    \E k \in 1..Len(df.columns) : Contains(L_sucursal, Lower(Strip(df.columns[k])))

\* The columns obtener_tabla_con_sucursal tests: those of the flattened frame.
ColumnasProbadas(df) == aplanar_columnas(df)

\* One scan of obtener_tabla_con_sucursal over the tables of the page: the
\* first non-empty DataFrame with a 'sucursal' column is returned.
RECURSIVE FirstSucursalInList(_, _, _)
FirstSucursalInList(df_list, j, i) ==
    IF j > Len(df_list) THEN Outcome("no_match", NoDf, <<0, 0>>)
    ELSE IF Empty(df_list[j]) THEN FirstSucursalInList(df_list, j + 1, i)
    ELSE LET df == ColumnasProbadas(df_list[j])
         IN  IF TieneSucursal(df) THEN Outcome("ok", df, <<i, j>>)
             ELSE FirstSucursalInList(df_list, j + 1, i)

\* (variant: the scan keeps going and the last match is the one returned)
RECURSIVE FirstSucursalInPage_Last(_, _)
FirstSucursalInPage_Last(tables, i) ==
    IF i > Len(tables) THEN Outcome("no_match", NoDf, <<0, 0>>)
    ELSE LET rest == FirstSucursalInPage_Last(tables, i + 1)
         IN  IF rest.status = "ok" THEN rest
             ELSE IF tables[i].err THEN rest
             ELSE FirstSucursalInList(tables[i].dfs, 1, i)

RECURSIVE FirstSucursalInPage(_, _)
FirstSucursalInPage(tables, i) ==
    IF i > Len(tables) THEN Outcome("no_match", NoDf, <<0, 0>>)
    ELSE IF tables[i].err THEN FirstSucursalInPage(tables, i + 1)
    ELSE LET r == FirstSucursalInList(tables[i].dfs, 1, i)
         IN  IF r.status = "ok" THEN r ELSE FirstSucursalInPage(tables, i + 1)

ObtenerScan(tables) ==
    IF Len(tables) = 0 THEN Outcome("no_tables", NoDf, <<0, 0>>)
    ELSE FirstSucursalInPage(tables, 1)

\* ------------------------------------------------------------ the pages
\* Largest number of <table> elements on a page.
MaxTables == 3

Flat(f, first, n) == DataFrame(f, FALSE, [k \in 1..n |-> IF k = 1 THEN first ELSE L_Total])

G2x3 == Flat(2, L_Sucur, 3)
G5x4 == Flat(5, L_Total, 4)
G1x10S == Flat(1, L_Sucursal, 10)
G4x5U == Flat(4, L_SUCURSAL_pad, 5)
\* 'Sucursal' only in the outer header row: the flat names do not contain it.
G3x2M == DataFrame(3, TRUE, << <<L_Sucursal, L_Total>>, <<L_MetaCNM, L_Porcentaje>> >>)
\* 'Sucursal' in the innermost row, and a column whose innermost segment is missing.
G6x2MS == DataFrame(6, TRUE, << <<L_MetaCNM, L_IdSucursal>>, <<L_MetaCNM, L_nan>> >>)
\* Header with 'Sucursal' but no data rows: df.empty.
G0x3S == Flat(0, L_Sucursal, 3)

Tabla(dfs) == [err |-> FALSE, dfs |-> dfs]
\* A table whose outerHTML cannot be fetched or parsed.
TablaError == [err |-> TRUE, dfs |-> <<>>]

TableKinds ==
    { TablaError, Tabla(<<G2x3>>), Tabla(<<G5x4>>), Tabla(<<G1x10S>>), Tabla(<<G4x5U>>),
      Tabla(<<G3x2M>>), Tabla(<<G6x2MS>>), Tabla(<<G0x3S>>), Tabla(<<G2x3, G1x10S>>) }

Pages == UNION { [1..n -> TableKinds] : n \in 0..MaxTables }


DoExtraerTablaHtml ==
    /\ xfn = ""
    /\ xfn' = "extraer_tabla_html"
    /\ xres' = extraer_tabla_html(page)
    /\ UNCHANGED <<page, retryVars, clickVars, pollVars, aplVars, descVars, mainVars>>

DoExtraerVentaTotal ==
    /\ xfn = ""
    /\ xfn' = "extraer_tabla_principal_venta_total"
    /\ xres' = extraer_tabla_principal_venta_total(page)
    /\ UNCHANGED <<page, retryVars, clickVars, pollVars, aplVars, descVars, mainVars>>

DoObtenerScan ==
    /\ xfn = ""
    /\ xfn' = "obtener_tabla_con_sucursal"
    /\ xres' = ObtenerScan(page)
    /\ UNCHANGED <<page, retryVars, clickVars, pollVars, aplVars, descVars, mainVars>>

ExtNext == DoExtraerTablaHtml \/ DoExtraerVentaTotal \/ DoObtenerScan

\* ========================================================================
\* Polling waits: esperar_tabla, esperar_tabla_con_registros,
\* obtener_tabla_con_sucursal, seleccionar_tipo_reporte, esperar_archivo_descarga
\* ========================================================================

\* ------------------------------------------------------------------ bounds
\* Seconds one evaluation of the awaited condition may take, and seconds all
\* evaluations of one wait may take together (the sleeps are not counted).
MaxPollCost == 1
MaxEvalTime == 2

\* ------------------------------------------------------- program constants
TABLE_WAIT_TIMEOUTMS == 120000
REGISTROS_TIMEOUT == 120
TIPO_REPORTE_TIMEOUT == 20
ARCHIVO_TIMEOUT == 600
ARCHIVO_INTERVALO == 10
VENTA_TOTAL_TIMEOUT == 900
VENTA_TOTAL_INTERVALO == 15
\* time.sleep(1) at the end of an iteration.
POLL_SLEEP == 1

Wait(fn, t, iv) == [fn |-> fn, timeout |-> t, intervalo |-> iv]
NoWait == Wait("", 0, 0)

\* The waits as the scripts call them.  esperar_archivo_descarga is modelled
\* with its defaults and with the arguments descargar_reporte_venta_total gives.
Waits ==
    { Wait("esperar_tabla", TABLE_WAIT_TIMEOUTMS \div 1000, POLL_SLEEP),
      Wait("esperar_tabla_con_registros", REGISTROS_TIMEOUT, POLL_SLEEP),
      Wait("obtener_tabla_con_sucursal", TABLE_WAIT_TIMEOUTMS \div 1000, POLL_SLEEP),
      Wait("seleccionar_tipo_reporte", TIPO_REPORTE_TIMEOUT, POLL_SLEEP),
      Wait("esperar_archivo_descarga", ARCHIVO_TIMEOUT, ARCHIVO_INTERVALO),
      Wait("esperar_archivo_descarga", VENTA_TOTAL_TIMEOUT, VENTA_TOTAL_INTERVALO) }

\* What a poll of esperar_archivo_descarga can observe: no file, stat() raising,
\* or the file's size.  NoObs: nothing observed yet.
Absent == -1
StatRaises == -2
NoObs == -3
FileSizes == {0, 120, 240}

\* The page snapshots a poll of obtener_tabla_con_sucursal can see.
SamplePages ==
    { <<>>, <<TablaError>>, <<Tabla(<<G0x3S>>)>>, <<Tabla(<<G5x4>>), Tabla(<<G3x2M>>)>>,
      <<Tabla(<<G2x3>>), Tabla(<<G5x4>>), Tabla(<<G1x10S>>)>>, <<Tabla(<<G6x2MS>>)>> }

\* The loop test: esperar_tabla counts iterations (`for i in range(max_seconds)`),
\* the others compare the clock (`while time.time() - start < timeout`).
LoopContinues_Short(w, t, n) ==
    IF w.fn = "esperar_tabla" THEN n < w.timeout - 1 ELSE t + w.intervalo < w.timeout
LoopContinues(w, t, n) ==
    IF w.fn = "esperar_tabla" THEN n < w.timeout ELSE t < w.timeout

\* What an exception raised by the evaluation of the condition leads to:
\* esperar_tabla and esperar_tabla_con_registros evaluate inside try/except and
\* go on to the sleep; the other waits evaluate outside any try, so the
\* exception leaves the function.
RaiseVerdict(fn) ==
    IF fn \in {"esperar_tabla", "esperar_tabla_con_registros"} THEN "sleep" ELSE "propagate"

\* The sleep that follows the n-th evaluation when it did not end the wait.
SleepAfterPoll_SkipFirst(w, n) == IF n = 1 THEN 0 ELSE w.intervalo
SleepAfterPoll(w, n) == w.intervalo

\* What a condition that evaluated false leads to.
FalseVerdict(fn) == "sleep"

Verdict(fn, cond) ==
    CASE cond = "true" -> "return"
      [] cond = "false" -> FalseVerdict(fn)
      [] cond = "raise" -> RaiseVerdict(fn)

\* seleccionar_tipo_reporte sleeps one more second before it returns.
SleepBeforeReturn(fn) == IF fn = "seleccionar_tipo_reporte" THEN POLL_SLEEP ELSE 0

PollCosts == { c \in 0..MaxPollCost : evalTime + c <= MaxEvalTime }

\* The bookkeeping common to every poll: the evaluation took c seconds and came
\* out as cond; the wait returns, sleeps or lets the exception through.
PollAdvance(cond, c) ==
    LET what == Verdict(wait.fn, cond)
        nap == CASE what = "return" -> SleepBeforeReturn(wait.fn)
                 [] what = "sleep" -> SleepAfterPoll(wait, polls + 1)
                 [] what = "propagate" -> 0
    IN  /\ polls' = polls + 1
        /\ evalTime' = evalTime + c
        /\ lastCond' = cond
        /\ sawRaise' = (sawRaise \/ cond = "raise")
        /\ now' = now + c + nap
        /\ pSleeps' = IF nap > 0 THEN pSleeps + 1 ELSE pSleeps
        /\ ppc' = CASE what = "return" -> "ok"
                    [] what = "sleep" -> "poll"
                    [] what = "propagate" -> "error"

PollGuard(fn) ==
    /\ ppc = "poll"
    /\ wait.fn = fn
    /\ LoopContinues(wait, now, polls)

\* esperar_tabla: `page.locator("table").count() > 0` inside try/except.
PollEsperarTabla(cond, c) ==
    /\ PollGuard("esperar_tabla")
    /\ PollAdvance(cond, c)
    /\ UNCHANGED <<wait, ultimo_tam, antObs, prevObs, curObs, sawData, ultimo_result, pDf>>
    /\ UNCHANGED <<retryVars, clickVars, extVars, aplVars, descVars, mainVars>>

\* esperar_tabla_con_registros: `count >= min_filas` inside try/except.
PollTablaConRegistros(cond, c) ==
    /\ PollGuard("esperar_tabla_con_registros")
    /\ PollAdvance(cond, c)
    /\ UNCHANGED <<wait, ultimo_tam, antObs, prevObs, curObs, sawData, ultimo_result, pDf>>
    /\ UNCHANGED <<retryVars, clickVars, extVars, aplVars, descVars, mainVars>>

\* obtener_tabla_con_sucursal: tablas.count() raises, or the tables of the page
\* are scanned as they are at this moment.
PollObtenerRaises(c) ==
    /\ PollGuard("obtener_tabla_con_sucursal")
    /\ PollAdvance("raise", c)
    /\ UNCHANGED <<wait, ultimo_tam, antObs, prevObs, curObs, sawData, ultimo_result, pDf>>
    /\ UNCHANGED <<retryVars, clickVars, extVars, aplVars, descVars, mainVars>>

PollObtener(tables, c) ==
    /\ PollGuard("obtener_tabla_con_sucursal")
    /\ LET r == ObtenerScan(tables) IN
         /\ PollAdvance(IF r.status = "ok" THEN "true" ELSE "false", c)
         /\ pDf' = IF ppc' = "ok" THEN r.df ELSE pDf
    /\ UNCHANGED <<wait, ultimo_tam, antObs, prevObs, curObs, sawData, ultimo_result>>
    /\ UNCHANGED <<retryVars, clickVars, extVars, aplVars, descVars, mainVars>>

\* seleccionar_tipo_reporte: page.wait_for_selector("select") before the loop.
PreSelectorOk ==
    /\ ppc = "pre"
    /\ ppc' = "poll"
    /\ UNCHANGED <<wait, now, polls, pSleeps, evalTime, lastCond, sawRaise, ultimo_tam,
                   antObs, prevObs, curObs, sawData, ultimo_result, pDf>>
    /\ UNCHANGED <<retryVars, clickVars, extVars, aplVars, descVars, mainVars>>

PreSelectorRaises ==
    /\ ppc = "pre"
    /\ ppc' = "error"
    /\ UNCHANGED <<wait, now, polls, pSleeps, evalTime, lastCond, sawRaise, ultimo_tam,
                   antObs, prevObs, curObs, sawData, ultimo_result, pDf>>
    /\ UNCHANGED <<retryVars, clickVars, extVars, aplVars, descVars, mainVars>>

\* seleccionar_tipo_reporte: `if result == "ok": ... return`.
Seleccionado_SinOpcion(result) == result \in {"ok", "no-option"}
Seleccionado(result) == result = "ok"

\* The RuntimeError seleccionar_tipo_reporte raises after its loop: its message
\* ends with "Ultimo resultado: {ultimo_result}".
ErrorSeleccionar(ultimo) == [kind |-> "RuntimeError", ultimo |-> ultimo]

\* seleccionar_tipo_reporte: page.evaluate(...) gives 'no-selects', 'no-option'
\* or 'ok', outside any try.
PollSeleccionar(result, c) ==
    /\ PollGuard("seleccionar_tipo_reporte")
    /\ PollAdvance(IF Seleccionado(result) THEN "true" ELSE "false", c)
    /\ ultimo_result' = result
    /\ UNCHANGED <<wait, ultimo_tam, antObs, prevObs, curObs, sawData, pDf>>
    /\ UNCHANGED <<retryVars, clickVars, extVars, aplVars, descVars, mainVars>>

PollSeleccionarRaises(c) ==
    /\ PollGuard("seleccionar_tipo_reporte")
    /\ PollAdvance("raise", c)
    /\ UNCHANGED <<wait, ultimo_tam, antObs, prevObs, curObs, sawData, ultimo_result, pDf>>
    /\ UNCHANGED <<retryVars, clickVars, extVars, aplVars, descVars, mainVars>>

\* `tam > 0 and tam == ultimo_tam`
Estable_Mayor(tam, ultimo) == ultimo > 0 /\ tam > ultimo
Estable_SinTamano(tam, ultimo) == tam = ultimo
Estable(tam, ultimo) == tam > 0 /\ tam = ultimo

\* esperar_archivo_descarga: ruta.exists() and ruta.stat().st_size, outside any try.
PollArchivo(obs, c) ==
    /\ PollGuard("esperar_archivo_descarga")
    /\ antObs' = prevObs
    /\ prevObs' = curObs
    /\ curObs' = obs
    /\ sawData' = (sawData \/ obs > 0)
    /\ CASE obs = StatRaises ->
              /\ PollAdvance("raise", c)
              /\ ultimo_tam' = ultimo_tam
         [] obs = Absent ->
              /\ PollAdvance("false", c)
              /\ ultimo_tam' = ultimo_tam
         [] OTHER ->
              /\ PollAdvance(IF Estable(obs, ultimo_tam) THEN "true" ELSE "false", c)
              /\ ultimo_tam' = IF Estable(obs, ultimo_tam) THEN ultimo_tam ELSE obs
    /\ UNCHANGED <<wait, ultimo_result, pDf>>
    /\ UNCHANGED <<retryVars, clickVars, extVars, aplVars, descVars, mainVars>>

\* The loop test fails: the code after the loop raises the wait's timeout error.
PollTimeout ==
    /\ ppc = "poll"
    /\ ~LoopContinues(wait, now, polls)
    /\ ppc' = "timeout"
    /\ UNCHANGED <<wait, now, polls, pSleeps, evalTime, lastCond, sawRaise, ultimo_tam,
                   antObs, prevObs, curObs, sawData, ultimo_result, pDf>>
    /\ UNCHANGED <<retryVars, clickVars, extVars, aplVars, descVars, mainVars>>

Conds == {"true", "false", "raise"}

PollNext ==
    \/ \E cond \in Conds, c \in PollCosts : PollEsperarTabla(cond, c)
    \/ \E cond \in Conds, c \in PollCosts : PollTablaConRegistros(cond, c)
    \/ \E c \in PollCosts : PollObtenerRaises(c)
    \/ \E tables \in SamplePages, c \in PollCosts : PollObtener(tables, c)
    \/ PreSelectorOk
    \/ PreSelectorRaises
    \/ \E result \in {"no-selects", "no-option", "ok"}, c \in PollCosts : PollSeleccionar(result, c)
    \/ \E c \in PollCosts : PollSeleccionarRaises(c)
    \/ \E obs \in {Absent, StatRaises} \cup FileSizes, c \in PollCosts : PollArchivo(obs, c)
    \/ PollTimeout

\* ========================================================================
\* Header flattening: aplanar_columnas applied to a frame, once and again
\* ========================================================================

\* Most columns of a frame given to aplanar_columnas.
MaxCols == 2

\* A header cell of blanks only.
L_blank == <<" ", " ">>

\* The header segments the frames are built from; L_nan is a missing cell.
Segmentos == {L_MetaCNM, L_NumeroCNM, L_Porcentaje, L_SUCURSAL_pad, L_blank, L_nan}

\* A two-row (MultiIndex) header and a plain header of n columns.
MultiHeaders(n) == [1..n -> Segmentos \X Segmentos]
PlainHeaders(n) == [1..n -> Segmentos]

\* `df = aplanar_columnas(df)`: the first call on the frame as parsed, a second
\* call on what the first returned.
DoAplanar ==
    /\ aveces < 2
    /\ aprev' = IF aveces = 0 THEN adf ELSE ares
    /\ ares' = aplanar_columnas(aprev')
    /\ aveces' = aveces + 1
    /\ UNCHANGED <<adf, retryVars, clickVars, pollVars, extVars, descVars, mainVars>>

AplNext == DoAplanar

\* ========================================================================
\* Download jobs: descargar_reporte_corte_caja, descargar_reporte_venta_total,
\* descargar_reporte_cargos_recurrentes under ejecutar_con_reintentos, with
\* descargar_excel_desde_tabla and limpiar_excel_inplace, and the files at the
\* job's target path and at its .tmp.xlsx path
\* ========================================================================

\* `for intento in range(1, 4)` and `time.sleep(10)` of limpiar_excel_inplace.
LIMPIAR_INTENTOS == 3
LIMPIAR_DELAY == 10

Trabajos == {"corte_caja", "venta_total", "cargos_recurrentes"}

\* The jobs that save the download through descargar_excel_desde_tabla; the
\* venta_total job clicks Excel and waits for the file to appear instead.
UsaTabla(j) == j \in {"corte_caja", "cargos_recurrentes"}

\* The jobs that call limpiar_excel_inplace on the artifact before returning.
Limpia(j) == j \in {"corte_caja", "venta_total"}

NoEntrada == <<"", "">>

\* Where the file found at the target path is deleted: the venta_total job
\* deletes it before it clicks Exportar, descargar_excel_desde_tabla only once
\* expect_download has given it the download.
BorraAntesDeExportar_Siempre(j) == TRUE
BorraAntesDeExportar(j) == j = "venta_total"

\* The step after the job's navigation, report type, dates and Generar.
TrasPasosPrevios(j) ==
    IF j = "venta_total" THEN "fin_carga"
    ELSE IF BorraAntesDeExportar(j) THEN "borrar" ELSE "exportar"

TrasBorrar(j) == IF BorraAntesDeExportar(j) THEN "exportar" ELSE "guardar"
TrasExportar(j) == IF UsaTabla(j) THEN "descarga" ELSE "esperar"
TrasDescarga(j) == IF BorraAntesDeExportar(j) THEN "guardar" ELSE "borrar"

\* What follows a failed unlink of the file found at the target path:
\* descargar_excel_desde_tabla calls unlink outside any try, the venta_total
\* job catches the exception, prints a warning and goes on to export.
BorrarPrevioFallido(j) == IF j = "venta_total" THEN "seguir" ELSE "propagar"

\* What follows an exception of scroll_into_view_if_needed / click on the
\* Exportar locator: in descargar_excel_desde_tabla it leaves the function, in
\* the venta_total job the enclosing try logs it and the job goes on to wait
\* for the file.  No other locator is tried in either.
ExportarFallido(j) == IF j = "venta_total" THEN "seguir" ELSE "propagar"

\* esperar_fin_carga_venta_total when 'Cargando...' is not seen within its
\* 10 s: `except Exception: ... return`.
TrasNoVerCargando_Falla == "raise"
TrasNoVerCargando == "return"

\* What follows the n-th failed read of limpiar_excel_inplace (after its
\* sleep): the next read, or `if df is None: ... return ruta`.
TrasLecturaFallida_UnaMas(n) == IF n <= LIMPIAR_INTENTOS THEN "leer" ELSE "returned"
TrasLecturaFallida(n) == IF n < LIMPIAR_INTENTOS THEN "leer" ELSE "returned"

\* Where a job goes once its artifact is at the target path.
TrasArtefacto(j) == IF Limpia(j) THEN "leer" ELSE "returned"

\* An exception leaves the job function: ejecutar_con_reintentos catches it.
Falla(paso) ==
    /\ jpc' = "fallo"
    /\ causa' = paso

\* The steps of a job before Exportar: navigation, report type, dates,
\* Generar (and, in descargar_reporte_corte_caja, the wait for the Exportar
\* button and the Membresia tab).
PasosPreviosOk ==
    /\ jpc = "previo"
    /\ jpc' = TrasPasosPrevios(job)
    /\ UNCHANGED <<job, jIntento, destino, tmp, lecturas, lDormido, alEntrar, causa, sobrescrito,
                   expLog, alInicio, cargando>>
    /\ UNCHANGED <<retryVars, clickVars, pollVars, extVars, aplVars, mainVars>>

PasosPreviosFallan ==
    /\ jpc = "previo"
    /\ Falla("previo")
    /\ UNCHANGED <<job, jIntento, destino, tmp, lecturas, lDormido, alEntrar, sobrescrito,
                   expLog, alInicio, cargando>>
    /\ UNCHANGED <<retryVars, clickVars, pollVars, extVars, aplVars, mainVars>>

\* esperar_fin_carga_venta_total, first wait: 'Cargando...' does not show up
\* within 10 s (or the wait raises otherwise).
FinCargaNoVisto ==
    /\ jpc = "fin_carga"
    /\ cargando' = "no_visto"
    /\ IF TrasNoVerCargando = "return"
       THEN jpc' = "boton" /\ causa' = causa
       ELSE Falla("fin_carga")
    /\ UNCHANGED <<job, jIntento, destino, tmp, lecturas, lDormido, alEntrar, sobrescrito,
                   expLog, alInicio>>
    /\ UNCHANGED <<retryVars, clickVars, pollVars, extVars, aplVars, mainVars>>

\* 'Cargando...' shows up within the 10 s.
FinCargaVisto ==
    /\ jpc = "fin_carga"
    /\ cargando' = "visto"
    /\ jpc' = "fin_carga2"
    /\ UNCHANGED <<job, jIntento, destino, tmp, lecturas, lDormido, alEntrar, causa, sobrescrito,
                   expLog, alInicio>>
    /\ UNCHANGED <<retryVars, clickVars, pollVars, extVars, aplVars, mainVars>>

\* Second wait: 'Cargando...' is detached within the timeout; the function returns.
FinCargaDesaparece ==
    /\ jpc = "fin_carga2"
    /\ cargando' = "desaparecio"
    /\ jpc' = "boton"
    /\ UNCHANGED <<job, jIntento, destino, tmp, lecturas, lDormido, alEntrar, causa, sobrescrito,
                   expLog, alInicio>>
    /\ UNCHANGED <<retryVars, clickVars, pollVars, extVars, aplVars, mainVars>>

\* Second wait raises (timeout): `raise RuntimeError("... no desaparecio ...")`.
FinCargaColgado ==
    /\ jpc = "fin_carga2"
    /\ cargando' = "colgado"
    /\ Falla("fin_carga")
    /\ UNCHANGED <<job, jIntento, destino, tmp, lecturas, lDormido, alEntrar, sobrescrito,
                   expLog, alInicio>>
    /\ UNCHANGED <<retryVars, clickVars, pollVars, extVars, aplVars, mainVars>>

\* venta_total: `page.wait_for_selector("button:has-text('Exportar')")`.
BotonOk ==
    /\ jpc = "boton"
    /\ jpc' = "borrar"
    /\ UNCHANGED <<job, jIntento, destino, tmp, lecturas, lDormido, alEntrar, causa, sobrescrito,
                   expLog, alInicio, cargando>>
    /\ UNCHANGED <<retryVars, clickVars, pollVars, extVars, aplVars, mainVars>>

BotonFalla ==
    /\ jpc = "boton"
    /\ Falla("boton")
    /\ UNCHANGED <<job, jIntento, destino, tmp, lecturas, lDormido, alEntrar, sobrescrito,
                   expLog, alInicio, cargando>>
    /\ UNCHANGED <<retryVars, clickVars, pollVars, extVars, aplVars, mainVars>>

\* Exportar: `export_btn = page.get_by_role("button", name="Exportar")` gives
\* a locator, `if not export_btn` is skipped, and scroll_into_view_if_needed
\* and click act through that locator.
ExportarRoleOk ==
    /\ jpc = "exportar"
    /\ expLog' = Append(expLog, [via |-> "role", ok |-> TRUE])
    /\ jpc' = TrasExportar(job)
    /\ UNCHANGED <<job, jIntento, destino, tmp, lecturas, lDormido, alEntrar, causa, sobrescrito,
                   alInicio, cargando>>
    /\ UNCHANGED <<retryVars, clickVars, pollVars, extVars, aplVars, mainVars>>

\* scroll_into_view_if_needed or click raises on the role locator.
ExportarRoleFalla ==
    /\ jpc = "exportar"
    /\ expLog' = Append(expLog, [via |-> "role", ok |-> FALSE])
    /\ IF ExportarFallido(job) = "seguir"
       THEN jpc' = TrasExportar(job) /\ causa' = causa
       ELSE Falla("exportar")
    /\ UNCHANGED <<job, jIntento, destino, tmp, lecturas, lDormido, alEntrar, sobrescrito,
                   alInicio, cargando>>
    /\ UNCHANGED <<retryVars, clickVars, pollVars, extVars, aplVars, mainVars>>

\* The call get_by_role itself raises: export_btn stays None and the locator
\* "button:has-text('Exportar')" is the one acted through.
ExportarTexto(ok) ==
    /\ jpc = "exportar"
    /\ expLog' = Append(expLog, [via |-> "text", ok |-> ok])
    /\ IF ok \/ ExportarFallido(job) = "seguir"
       THEN jpc' = TrasExportar(job) /\ causa' = causa
       ELSE Falla("exportar")
    /\ UNCHANGED <<job, jIntento, destino, tmp, lecturas, lDormido, alEntrar, sobrescrito,
                   alInicio, cargando>>
    /\ UNCHANGED <<retryVars, clickVars, pollVars, extVars, aplVars, mainVars>>

\* descargar_excel_desde_tabla: the Excel click inside expect_download gives
\* the download within 60 s.
DescargaOk ==
    /\ jpc = "descarga"
    /\ jpc' = TrasDescarga(job)
    /\ UNCHANGED <<job, jIntento, destino, tmp, lecturas, lDormido, alEntrar, causa, sobrescrito,
                   expLog, alInicio, cargando>>
    /\ UNCHANGED <<retryVars, clickVars, pollVars, extVars, aplVars, mainVars>>

\* No download within 60 s (`raise RuntimeError`), or both Excel clicks raise.
DescargaFalla ==
    /\ jpc = "descarga"
    /\ Falla("descarga")
    /\ UNCHANGED <<job, jIntento, destino, tmp, lecturas, lDormido, alEntrar, sobrescrito,
                   expLog, alInicio, cargando>>
    /\ UNCHANGED <<retryVars, clickVars, pollVars, extVars, aplVars, mainVars>>

\* `if destino.exists(): destino.unlink()` / `if ruta.exists(): try: ruta.unlink()`
BorrarPrevioOk ==
    /\ jpc = "borrar"
    /\ destino' = "none"
    /\ jpc' = TrasBorrar(job)
    /\ UNCHANGED <<job, jIntento, tmp, lecturas, lDormido, alEntrar, causa, sobrescrito,
                   expLog, alInicio, cargando>>
    /\ UNCHANGED <<retryVars, clickVars, pollVars, extVars, aplVars, mainVars>>

BorrarPrevioFalla ==
    /\ jpc = "borrar"
    /\ destino # "none"
    /\ IF BorrarPrevioFallido(job) = "seguir"
       THEN jpc' = TrasBorrar(job) /\ causa' = causa
       ELSE Falla("borrar")
    /\ UNCHANGED <<job, jIntento, destino, tmp, lecturas, lDormido, alEntrar, sobrescrito,
                   expLog, alInicio, cargando>>
    /\ UNCHANGED <<retryVars, clickVars, pollVars, extVars, aplVars, mainVars>>

\* descargar_excel_desde_tabla: `download.save_as(str(destino))`, then the job
\* goes on to the cleanup or returns the path.
GuardarOk ==
    /\ jpc = "guardar"
    /\ sobrescrito' = (sobrescrito \/ destino # "none")
    /\ destino' = "fresh"
    /\ jpc' = TrasArtefacto(job)
    /\ alEntrar' = IF Limpia(job) THEN <<destino', tmp>> ELSE alEntrar
    /\ UNCHANGED <<job, jIntento, tmp, lecturas, lDormido, causa, expLog, alInicio, cargando>>
    /\ UNCHANGED <<retryVars, clickVars, pollVars, extVars, aplVars, mainVars>>

\* save_as raises: nothing, or an incomplete copy, is left at the target.
GuardarFalla ==
    /\ jpc = "guardar"
    /\ destino' \in {destino, "partial"}
    /\ Falla("guardar")
    /\ UNCHANGED <<job, jIntento, tmp, lecturas, lDormido, alEntrar, sobrescrito,
                   expLog, alInicio, cargando>>
    /\ UNCHANGED <<retryVars, clickVars, pollVars, extVars, aplVars, mainVars>>

\* venta_total: after the Excel click (whose errors are only logged) the
\* export arrives at OUTPUT_DIR/venta_total.xlsx while the job is waiting.
LlegaDescarga ==
    /\ jpc = "esperar"
    /\ destino # "fresh"
    /\ sobrescrito' = (sobrescrito \/ destino # "none")
    /\ destino' = "fresh"
    /\ UNCHANGED <<job, jpc, jIntento, tmp, lecturas, lDormido, alEntrar, causa,
                   expLog, alInicio, cargando>>
    /\ UNCHANGED <<retryVars, clickVars, pollVars, extVars, aplVars, mainVars>>

\* venta_total: esperar_archivo_descarga found a file of stable size.
EsperarOk ==
    /\ jpc = "esperar"
    /\ destino # "none"
    /\ jpc' = TrasArtefacto(job)
    /\ alEntrar' = <<destino, tmp>>
    /\ UNCHANGED <<job, jIntento, destino, tmp, lecturas, lDormido, causa, sobrescrito,
                   expLog, alInicio, cargando>>
    /\ UNCHANGED <<retryVars, clickVars, pollVars, extVars, aplVars, mainVars>>

\* venta_total: esperar_archivo_descarga raised; the job logs and re-raises.
EsperarFalla ==
    /\ jpc = "esperar"
    /\ Falla("esperar")
    /\ UNCHANGED <<job, jIntento, destino, tmp, lecturas, lDormido, alEntrar, sobrescrito,
                   expLog, alInicio, cargando>>
    /\ UNCHANGED <<retryVars, clickVars, pollVars, extVars, aplVars, mainVars>>

\* limpiar_excel_inplace: `df = pd.read_excel(ruta); break`
LeerOk ==
    /\ jpc = "leer"
    /\ destino \in {"old", "fresh", "clean"}
    /\ jpc' = "escribir"
    /\ UNCHANGED <<job, jIntento, destino, tmp, lecturas, lDormido, alEntrar, causa, sobrescrito,
                   expLog, alInicio, cargando>>
    /\ UNCHANGED <<retryVars, clickVars, pollVars, extVars, aplVars, mainVars>>

\* read_excel raises: warning, sleep, next try; after the last try the function
\* returns the path and the job returns.
LeerFalla ==
    /\ jpc = "leer"
    /\ lecturas' = lecturas + 1
    /\ lDormido' = lDormido + LIMPIAR_DELAY
    /\ jpc' = TrasLecturaFallida(lecturas')
    /\ UNCHANGED <<job, jIntento, destino, tmp, alEntrar, causa, sobrescrito,
                   expLog, alInicio, cargando>>
    /\ UNCHANGED <<retryVars, clickVars, pollVars, extVars, aplVars, mainVars>>

\* `df.to_excel(tmp_path, index=False)`, outside any try.
EscribirTmpOk ==
    /\ jpc = "escribir"
    /\ tmp' = "clean"
    /\ jpc' = "unlink"
    /\ UNCHANGED <<job, jIntento, destino, lecturas, lDormido, alEntrar, causa, sobrescrito,
                   expLog, alInicio, cargando>>
    /\ UNCHANGED <<retryVars, clickVars, pollVars, extVars, aplVars, mainVars>>

EscribirTmpFalla ==
    /\ jpc = "escribir"
    /\ tmp' \in {tmp, "partial"}
    /\ Falla("escribir")
    /\ UNCHANGED <<job, jIntento, destino, lecturas, lDormido, alEntrar, sobrescrito,
                   expLog, alInicio, cargando>>
    /\ UNCHANGED <<retryVars, clickVars, pollVars, extVars, aplVars, mainVars>>

\* `try: ruta.unlink() except Exception: logging.warning(...)`
UnlinkOk ==
    /\ jpc = "unlink"
    /\ destino' = "none"
    /\ jpc' = "rename"
    /\ UNCHANGED <<job, jIntento, tmp, lecturas, lDormido, alEntrar, causa, sobrescrito,
                   expLog, alInicio, cargando>>
    /\ UNCHANGED <<retryVars, clickVars, pollVars, extVars, aplVars, mainVars>>

UnlinkFalla ==
    /\ jpc = "unlink"
    /\ jpc' = "rename"
    /\ UNCHANGED <<job, jIntento, destino, tmp, lecturas, lDormido, alEntrar, causa, sobrescrito,
                   expLog, alInicio, cargando>>
    /\ UNCHANGED <<retryVars, clickVars, pollVars, extVars, aplVars, mainVars>>

\* `tmp_path.rename(ruta)`, outside any try; then the job returns.
RenameOk ==
    /\ jpc = "rename"
    /\ destino' = tmp
    /\ tmp' = "none"
    /\ jpc' = "returned"
    /\ UNCHANGED <<job, jIntento, lecturas, lDormido, alEntrar, causa, sobrescrito,
                   expLog, alInicio, cargando>>
    /\ UNCHANGED <<retryVars, clickVars, pollVars, extVars, aplVars, mainVars>>

RenameFalla ==
    /\ jpc = "rename"
    /\ Falla("rename")
    /\ UNCHANGED <<job, jIntento, destino, tmp, lecturas, lDormido, alEntrar, sobrescrito,
                   expLog, alInicio, cargando>>
    /\ UNCHANGED <<retryVars, clickVars, pollVars, extVars, aplVars, mainVars>>

\* ejecutar_con_reintentos after a failed attempt: the job function is called
\* again with the files as the failed attempt left them, or the wrapper raises.
Reintentar ==
    /\ jpc = "fallo"
    /\ LoopHasNext(jIntento)
    /\ jIntento' = jIntento + 1
    /\ jpc' = "previo"
    /\ lecturas' = 0
    /\ lDormido' = 0
    /\ alEntrar' = NoEntrada
    /\ expLog' = <<>>
    /\ alInicio' = destino
    /\ cargando' = "none"
    /\ UNCHANGED <<job, destino, tmp, causa, sobrescrito>>
    /\ UNCHANGED <<retryVars, clickVars, pollVars, extVars, aplVars, mainVars>>

Agotado ==
    /\ jpc = "fallo"
    /\ ~LoopHasNext(jIntento)
    /\ jpc' = "exhausted"
    /\ UNCHANGED <<job, jIntento, destino, tmp, lecturas, lDormido, alEntrar, causa, sobrescrito,
                   expLog, alInicio, cargando>>
    /\ UNCHANGED <<retryVars, clickVars, pollVars, extVars, aplVars, mainVars>>

\* The process is killed between two steps.
Caida ==
    /\ jpc \notin {"idle", "returned", "exhausted", "crashed"}
    /\ jpc' = "crashed"
    /\ UNCHANGED <<job, jIntento, destino, tmp, lecturas, lDormido, alEntrar, causa, sobrescrito,
                   expLog, alInicio, cargando>>
    /\ UNCHANGED <<retryVars, clickVars, pollVars, extVars, aplVars, mainVars>>

DescNext ==
    \/ PasosPreviosOk
    \/ PasosPreviosFallan
    \/ FinCargaNoVisto
    \/ FinCargaVisto
    \/ FinCargaDesaparece
    \/ FinCargaColgado
    \/ BotonOk
    \/ BotonFalla
    \/ ExportarRoleOk
    \/ ExportarRoleFalla
    \/ \E ok \in BOOLEAN : ExportarTexto(ok)
    \/ DescargaOk
    \/ DescargaFalla
    \/ BorrarPrevioOk
    \/ BorrarPrevioFalla
    \/ GuardarOk
    \/ GuardarFalla
    \/ LlegaDescarga
    \/ EsperarOk
    \/ EsperarFalla
    \/ LeerOk
    \/ LeerFalla
    \/ EscribirTmpOk
    \/ EscribirTmpFalla
    \/ UnlinkOk
    \/ UnlinkFalla
    \/ RenameOk
    \/ RenameFalla
    \/ Reintentar
    \/ Agotado
    \/ Caida

\* ========================================================================
\* The run: run_todos_los_reportes runs reporte_direccion_ingresos.py and
\* reporte_descargas.py as child processes; each script's main validates its
\* configuration, logs in and gives its three report jobs, one after the
\* other, to ejecutar_con_reintentos; the jobs navigate and wait by polling
\* ========================================================================

\* result.returncode of a child that has not ended.
NoCode == -1
NoAgotado == <<0, 0>>

Guiones == <<"reporte_direccion_ingresos.py", "reporte_descargas.py">>

\* The jobs of each main, in the order main calls ejecutar_con_reintentos.
JobsDe(s) ==
    IF s = 1
    THEN <<"descargar_reporte_direccion", "descargar_kpi_desempeno",
           "descargar_kpi_ventas_nuevos_socios">>
    ELSE <<"descargar_reporte_corte_caja", "descargar_reporte_venta_total",
           "descargar_reporte_cargos_recurrentes">>

\* The polling waits each job function calls after its page.goto, in order.
EsperasDe(j) ==
    CASE j = "descargar_reporte_direccion" ->
           << Wait("esperar_tabla", TABLE_WAIT_TIMEOUTMS \div 1000, POLL_SLEEP) >>
      [] j \in {"descargar_kpi_desempeno", "descargar_kpi_ventas_nuevos_socios"} ->
           << Wait("seleccionar_tipo_reporte", TIPO_REPORTE_TIMEOUT, POLL_SLEEP),
              Wait("obtener_tabla_con_sucursal", TABLE_WAIT_TIMEOUTMS \div 1000, POLL_SLEEP) >>
      [] j \in {"descargar_reporte_corte_caja", "descargar_reporte_cargos_recurrentes"} ->
           << Wait("seleccionar_tipo_reporte", TIPO_REPORTE_TIMEOUT, POLL_SLEEP) >>
      [] j = "descargar_reporte_venta_total" ->
           << Wait("seleccionar_tipo_reporte", TIPO_REPORTE_TIMEOUT, POLL_SLEEP),
              Wait("esperar_archivo_descarga", VENTA_TOTAL_TIMEOUT, VENTA_TOTAL_INTERVALO) >>

JobActual == JobsDe(script)[jobIdx]

\* Whether job function j calls hacer_login: none does, main calls it once
\* before its first ejecutar_con_reintentos.
\* The output files main of script s writes itself, after its try:
\* reporte_direccion_ingresos.py its three frames, reporte_descargas.py none
\* (its jobs save their downloads).
ArchivosDeMain(s) == IF s = 1 THEN Len(JobsDe(s)) ELSE 0

\* Whether main writes a job's file when its ejecutar_con_reintentos returns:
\* it only keeps the returned frame in a local variable.
EscribeAlRetornar_Si(s) == s = 1
EscribeAlRetornar(s) == FALSE

LoginEnJob_Si(j) == TRUE
LoginEnJob(j) == FALSE

\* What a poll for venta_total.xlsx can observe during a run: no file, stat()
\* raising, an empty file, a file with content.
ObsVentaTotal == {Absent, StatRaises, 0, 120}

\* `for intento in range(1, MAX_RETRIES + 1)`: the attempt after attempt i.
SiguienteIntento_Mismo(i) == i
SiguienteIntento(i) == i + 1

\* The job a new attempt runs after job k failed: `return fn()` with the same fn.
TrasFallo_DesdeElPrimero(k) == 1
TrasFallo(k) == k

\* The wait at which a new attempt of a job starts when the failed attempt was
\* at wait `previa`: 0, that is before page.goto, since fn is called afresh.
EsperaInicial_Reanuda(previa) == previa
EsperaInicial(previa) == 0

\* run_script after the child ended with `code`:
\* `if result.returncode != 0: ... raise SystemExit(result.returncode)`.
TrasScript_Ignora(code) == "seguir"
TrasScript(code) == IF code # 0 THEN "salir" ELSE "seguir"

\* No wait is in progress.
SinEspera ==
    /\ wait' = NoWait /\ ppc' = "idle"
    /\ now' = 0 /\ polls' = 0 /\ pSleeps' = 0 /\ evalTime' = 0
    /\ lastCond' = "none" /\ sawRaise' = FALSE
    /\ ultimo_tam' = -1 /\ antObs' = NoObs /\ prevObs' = NoObs /\ curObs' = NoObs
    /\ sawData' = FALSE
    /\ ultimo_result' = "None" /\ pDf' = NoDf

\* A wait is entered: its start time is read and its locals are initialised.
IniciarEspera(w) ==
    /\ wait' = w
    /\ ppc' = IF w.fn = "seleccionar_tipo_reporte" THEN "pre" ELSE "poll"
    /\ now' = 0 /\ polls' = 0 /\ pSleeps' = 0 /\ evalTime' = 0
    /\ lastCond' = "none" /\ sawRaise' = FALSE
    /\ ultimo_tam' = -1 /\ antObs' = NoObs /\ prevObs' = NoObs /\ curObs' = NoObs
    /\ sawData' = FALSE
    /\ ultimo_result' = "None" /\ pDf' = NoDf

\* An attempt of job k starts at wait e (0: at its page.goto).
IniciarIntento(k, e) ==
    /\ jobIdx' = k
    /\ esperaIdx' = e
    /\ navegado' = FALSE
    /\ IF e = 0
       THEN mpc' = "goto" /\ SinEspera
       ELSE mpc' = "esperando" /\ IniciarEspera(EsperasDe(JobsDe(script)[k])[e])

\* validar_config: directories made, nothing missing.
ValidarConfigOk ==
    /\ mpc = "config"
    /\ mpc' = "login"
    /\ UNCHANGED <<script, jobIdx, mIntento, esperaIdx, navegado, terminados, agotado,
                   logueado, exitoDicho, logins, codigos, salida>>
    /\ UNCHANGED <<retryVars, clickVars, pollVars, extVars, aplVars, descVars>>
    /\ UNCHANGED escritos

\* validar_config: `logging.error(msg); print(msg); sys.exit(1)`.
ValidarConfigFalla ==
    /\ mpc = "config"
    /\ logueado' = TRUE
    /\ codigos' = [codigos EXCEPT ![script] = 1]
    /\ mpc' = "exited"
    /\ UNCHANGED <<script, jobIdx, mIntento, esperaIdx, navegado, terminados, agotado,
                   exitoDicho, logins, salida>>
    /\ UNCHANGED <<retryVars, clickVars, pollVars, extVars, aplVars, descVars>>
    /\ UNCHANGED escritos

\* Browser launched and hacer_login(page) returned: main calls
\* ejecutar_con_reintentos for its first job.
LoginOk ==
    /\ mpc = "login"
    /\ logins' = logins + 1
    /\ mIntento' = 1
    /\ IniciarIntento(1, 0)
    /\ UNCHANGED <<script, terminados, agotado, logueado, exitoDicho, codigos, salida>>
    /\ UNCHANGED <<retryVars, clickVars, extVars, aplVars, descVars>>
    /\ UNCHANGED escritos

\* The launch or hacer_login raises inside main's try.
LoginFalla ==
    /\ mpc = "login"
    /\ logins' = logins + 1
    /\ mpc' = "except"
    /\ UNCHANGED <<script, jobIdx, mIntento, esperaIdx, navegado, terminados, agotado,
                   logueado, exitoDicho, codigos, salida>>
    /\ UNCHANGED <<retryVars, clickVars, pollVars, extVars, aplVars, descVars>>
    /\ UNCHANGED escritos

\* The job function's first browser call: page.goto(<report URL>) and
\* wait_for_load_state; then its first polling wait is entered.
NavegarOk ==
    /\ mpc = "goto"
    /\ navegado' = TRUE
    /\ esperaIdx' = 1
    /\ mpc' = "esperando"
    /\ logins' = IF LoginEnJob(JobActual) THEN logins + 1 ELSE logins
    /\ IniciarEspera(EsperasDe(JobActual)[1])
    /\ UNCHANGED <<script, jobIdx, mIntento, terminados, agotado, logueado, exitoDicho,
                   codigos, salida>>
    /\ UNCHANGED <<retryVars, clickVars, extVars, aplVars, descVars>>
    /\ UNCHANGED escritos

NavegarFalla ==
    /\ mpc = "goto"
    /\ mpc' = "fallo"
    /\ UNCHANGED <<script, jobIdx, mIntento, esperaIdx, navegado, terminados, agotado,
                   logueado, exitoDicho, logins, codigos, salida>>
    /\ UNCHANGED <<retryVars, clickVars, pollVars, extVars, aplVars, descVars>>
    /\ UNCHANGED escritos

\* A wait returned and the steps after it went through: the job enters its
\* next wait.
EsperaOk ==
    /\ mpc = "esperando"
    /\ ppc = "ok"
    /\ esperaIdx < Len(EsperasDe(JobActual))
    /\ esperaIdx' = esperaIdx + 1
    /\ IniciarEspera(EsperasDe(JobActual)[esperaIdx'])
    /\ UNCHANGED <<script, mpc, jobIdx, mIntento, navegado, terminados, agotado, logueado,
                   exitoDicho, logins, codigos, salida>>
    /\ UNCHANGED <<retryVars, clickVars, extVars, aplVars, descVars>>
    /\ UNCHANGED escritos

\* The last wait returned and the rest of the job went through: the job
\* returns, ejecutar_con_reintentos returns its value, and main calls
\* ejecutar_con_reintentos for the next job or leaves the `with` block.
JobRetorna ==
    /\ mpc = "esperando"
    /\ ppc = "ok"
    /\ esperaIdx = Len(EsperasDe(JobActual))
    /\ terminados' = Append(terminados, jobIdx)
    /\ IF jobIdx < Len(JobsDe(script))
       THEN /\ mIntento' = 1
            /\ IniciarIntento(jobIdx + 1, 0)
       ELSE /\ mpc' = "fin"
            /\ SinEspera
            /\ UNCHANGED <<jobIdx, mIntento, esperaIdx, navegado>>
    /\ escritos' = IF EscribeAlRetornar(script) THEN escritos + 1 ELSE escritos
    /\ UNCHANGED <<script, agotado, logueado, exitoDicho, logins, codigos, salida>>
    /\ UNCHANGED <<retryVars, clickVars, extVars, aplVars, descVars>>

\* The wait raised (its timeout error or an exception of the evaluation), or
\* a step after a wait that returned raised: the exception leaves the job
\* function and ejecutar_con_reintentos catches it.
JobFalla ==
    /\ mpc = "esperando"
    /\ ppc \in {"ok", "error", "timeout"}
    /\ mpc' = "fallo"
    /\ SinEspera
    /\ UNCHANGED <<script, jobIdx, mIntento, esperaIdx, navegado, terminados, agotado,
                   logueado, exitoDicho, logins, codigos, salida>>
    /\ UNCHANGED <<retryVars, clickVars, extVars, aplVars, descVars>>
    /\ UNCHANGED escritos

\* ejecutar_con_reintentos: `if intento < MAX_RETRIES: time.sleep(5)` and the
\* next iteration calls fn again.
MainReintentar ==
    /\ mpc = "fallo"
    /\ LoopHasNext(mIntento)
    /\ mIntento' = SiguienteIntento(mIntento)
    /\ IniciarIntento(TrasFallo(jobIdx), EsperaInicial(esperaIdx))
    /\ UNCHANGED <<script, terminados, agotado, logueado, exitoDicho, logins, codigos, salida>>
    /\ UNCHANGED <<retryVars, clickVars, extVars, aplVars, descVars>>
    /\ UNCHANGED escritos

\* ejecutar_con_reintentos: the loop is over, `raise RuntimeError(...)`.
MainAgotado ==
    /\ mpc = "fallo"
    /\ ~LoopHasNext(mIntento)
    /\ agotado' = <<script, jobIdx>>
    /\ mpc' = "except"
    /\ UNCHANGED <<script, jobIdx, mIntento, esperaIdx, navegado, terminados, logueado,
                   exitoDicho, logins, codigos, salida>>
    /\ UNCHANGED <<retryVars, clickVars, pollVars, extVars, aplVars, descVars>>
    /\ UNCHANGED escritos

\* main: `except Exception as e: print(msg); logging.error(msg);
\* [send_whatsapp(msg);] sys.exit(1)`.
MainExcept ==
    /\ mpc = "except"
    /\ logueado' = TRUE
    /\ codigos' = [codigos EXCEPT ![script] = 1]
    /\ mpc' = "exited"
    /\ UNCHANGED <<script, jobIdx, mIntento, esperaIdx, navegado, terminados, agotado,
                   exitoDicho, logins, salida>>
    /\ UNCHANGED <<retryVars, clickVars, pollVars, extVars, aplVars, descVars>>
    /\ UNCHANGED escritos

\* reporte_direccion_ingresos.py after the try: the next of its three
\* `df.to_excel(destino, index=False)` writes its file.
EscribirSalida ==
    /\ mpc = "fin"
    /\ escritos < ArchivosDeMain(script)
    /\ escritos' = escritos + 1
    /\ UNCHANGED <<script, mpc, jobIdx, mIntento, esperaIdx, navegado, terminados, agotado,
                   logueado, exitoDicho, logins, codigos, salida>>
    /\ UNCHANGED <<retryVars, clickVars, pollVars, extVars, aplVars, descVars>>

\* main after the try and its writes: reporte_direccion_ingresos.py sends the
\* OK message, reporte_descargas.py prints that it ended without errors; the
\* process ends with status 0.
MainFinOk ==
    /\ mpc = "fin"
    /\ escritos >= ArchivosDeMain(script)
    /\ exitoDicho' = TRUE
    /\ codigos' = [codigos EXCEPT ![script] = 0]
    /\ mpc' = "exited"
    /\ UNCHANGED <<script, jobIdx, mIntento, esperaIdx, navegado, terminados, agotado,
                   logueado, logins, salida, escritos>>
    /\ UNCHANGED <<retryVars, clickVars, pollVars, extVars, aplVars, descVars>>

\* reporte_direccion_ingresos.py: a to_excel after the try raises; the
\* exception is not caught and the interpreter ends with status 1.
MainEscrituraFalla ==
    /\ mpc = "fin"
    /\ escritos < ArchivosDeMain(script)
    /\ codigos' = [codigos EXCEPT ![script] = 1]
    /\ mpc' = "exited"
    /\ UNCHANGED <<script, jobIdx, mIntento, esperaIdx, navegado, terminados, agotado,
                   logueado, exitoDicho, logins, salida, escritos>>
    /\ UNCHANGED <<retryVars, clickVars, pollVars, extVars, aplVars, descVars>>

\* run_script: subprocess.run returned; a non-zero returncode ends the runner
\* with that status, otherwise the next script is run or the runner ends.
ScriptTermina ==
    /\ mpc = "exited"
    /\ IF TrasScript(codigos[script]) = "salir"
       THEN /\ salida' = codigos[script]
            /\ mpc' = "done"
            /\ UNCHANGED <<script, jobIdx, mIntento, esperaIdx, navegado, terminados,
                           logueado, exitoDicho, logins, escritos>>
       ELSE IF script < Len(Guiones)
       THEN /\ script' = script + 1
            /\ mpc' = "config"
            /\ jobIdx' = 0 /\ mIntento' = 0 /\ esperaIdx' = 0 /\ navegado' = FALSE
            /\ terminados' = <<>> /\ logueado' = FALSE /\ exitoDicho' = FALSE
            /\ logins' = 0 /\ escritos' = 0
            /\ salida' = salida
       ELSE /\ salida' = 0
            /\ mpc' = "done"
            /\ UNCHANGED <<script, jobIdx, mIntento, esperaIdx, navegado, terminados,
                           logueado, exitoDicho, logins, escritos>>
    /\ UNCHANGED <<agotado, codigos>>
    /\ UNCHANGED <<retryVars, clickVars, pollVars, extVars, aplVars, descVars>>

MainNext ==
    \/ ValidarConfigOk
    \/ ValidarConfigFalla
    \/ LoginOk
    \/ LoginFalla
    \/ NavegarOk
    \/ NavegarFalla
    \/ \E cond \in Conds, c \in PollCosts : PollEsperarTabla(cond, c)
    \/ \E c \in PollCosts : PollObtenerRaises(c)
    \/ \E tables \in SamplePages, c \in PollCosts : PollObtener(tables, c)
    \/ PreSelectorOk
    \/ PreSelectorRaises
    \/ \E result \in {"no-selects", "no-option", "ok"}, c \in PollCosts : PollSeleccionar(result, c)
    \/ \E c \in PollCosts : PollSeleccionarRaises(c)
    \/ \E obs \in ObsVentaTotal, c \in PollCosts : PollArchivo(obs, c)
    \/ PollTimeout
    \/ EsperaOk
    \/ JobRetorna
    \/ JobFalla
    \/ MainReintentar
    \/ MainAgotado
    \/ MainExcept
    \/ EscribirSalida
    \/ MainFinOk
    \/ MainEscrituraFalla
    \/ ScriptTermina

\* ========================================================================
\* Specifications
\* ========================================================================

InitRetry ==
    \* ejecutar_con_reintentos entered: ultimo_error = None, first attempt ahead
    /\ nombre_reporte \in Reportes /\ rpc = "loop" /\ intento = 1 /\ ultimo_error = None
    /\ fnLog = <<>> /\ sleepLog = <<>> /\ retVal = None /\ raisedErr = None
    /\ helper = "" /\ cpc = "idle" /\ estrategia = 0
    /\ attemptLog = <<>> /\ clicks = 0 /\ surfaced = <<>>
    /\ wait = NoWait /\ ppc = "idle"
    /\ now = 0 /\ polls = 0 /\ pSleeps = 0 /\ evalTime = 0
    /\ lastCond = "none" /\ sawRaise = FALSE
    /\ ultimo_tam = -1 /\ antObs = NoObs /\ prevObs = NoObs /\ curObs = NoObs
    /\ sawData = FALSE
    /\ ultimo_result = "None" /\ pDf = NoDf
    /\ page = <<>> /\ xfn = "" /\ xres = NoOutcome
    /\ adf = NoDf /\ aveces = 0 /\ aprev = NoDf /\ ares = NoDf
    /\ job = "" /\ jpc = "idle" /\ jIntento = 0 /\ destino = "none" /\ tmp = "none"
    /\ lecturas = 0 /\ lDormido = 0 /\ alEntrar = NoEntrada /\ causa = "none"
    /\ sobrescrito = FALSE /\ expLog = <<>> /\ alInicio = "none" /\ cargando = "none"
    /\ script = 0 /\ mpc = "idle" /\ jobIdx = 0 /\ mIntento = 0 /\ esperaIdx = 0
    /\ navegado = FALSE /\ terminados = <<>> /\ agotado = NoAgotado /\ logueado = FALSE
    /\ exitoDicho = FALSE /\ logins = 0 /\ codigos = <<NoCode, NoCode>> /\ salida = NoCode
    /\ escritos = 0

SpecRetry == InitRetry /\ [][RetryNext]_vars

InitClick ==
    /\ nombre_reporte = "" /\ rpc = "idle" /\ intento = 0 /\ ultimo_error = None
    /\ fnLog = <<>> /\ sleepLog = <<>> /\ retVal = None /\ raisedErr = None
    \* a click helper entered: its first strategy ahead
    /\ helper \in Helpers /\ cpc = "try" /\ estrategia = 1
    /\ attemptLog = <<>> /\ clicks = 0 /\ surfaced = <<>>
    /\ wait = NoWait /\ ppc = "idle"
    /\ now = 0 /\ polls = 0 /\ pSleeps = 0 /\ evalTime = 0
    /\ lastCond = "none" /\ sawRaise = FALSE
    /\ ultimo_tam = -1 /\ antObs = NoObs /\ prevObs = NoObs /\ curObs = NoObs
    /\ sawData = FALSE
    /\ ultimo_result = "None" /\ pDf = NoDf
    /\ page = <<>> /\ xfn = "" /\ xres = NoOutcome
    /\ adf = NoDf /\ aveces = 0 /\ aprev = NoDf /\ ares = NoDf
    /\ job = "" /\ jpc = "idle" /\ jIntento = 0 /\ destino = "none" /\ tmp = "none"
    /\ lecturas = 0 /\ lDormido = 0 /\ alEntrar = NoEntrada /\ causa = "none"
    /\ sobrescrito = FALSE /\ expLog = <<>> /\ alInicio = "none" /\ cargando = "none"
    /\ script = 0 /\ mpc = "idle" /\ jobIdx = 0 /\ mIntento = 0 /\ esperaIdx = 0
    /\ navegado = FALSE /\ terminados = <<>> /\ agotado = NoAgotado /\ logueado = FALSE
    /\ exitoDicho = FALSE /\ logins = 0 /\ codigos = <<NoCode, NoCode>> /\ salida = NoCode
    /\ escritos = 0

SpecClick == InitClick /\ [][ClickNext]_vars

InitPoll ==
    /\ nombre_reporte = "" /\ rpc = "idle" /\ intento = 0 /\ ultimo_error = None
    /\ fnLog = <<>> /\ sleepLog = <<>> /\ retVal = None /\ raisedErr = None
    /\ helper = "" /\ cpc = "idle" /\ estrategia = 0
    /\ attemptLog = <<>> /\ clicks = 0 /\ surfaced = <<>>
    \* a wait entered and its start time read; seleccionar_tipo_reporte first
    \* waits for a <select> to exist ("pre")
    /\ wait \in Waits
    /\ ppc = IF wait.fn = "seleccionar_tipo_reporte" THEN "pre" ELSE "poll"
    /\ now = 0 /\ polls = 0 /\ pSleeps = 0 /\ evalTime = 0
    /\ lastCond = "none" /\ sawRaise = FALSE
    /\ ultimo_tam = -1 /\ antObs = NoObs /\ prevObs = NoObs /\ curObs = NoObs
    /\ sawData = FALSE
    /\ ultimo_result = "None" /\ pDf = NoDf
    /\ page = <<>> /\ xfn = "" /\ xres = NoOutcome
    /\ adf = NoDf /\ aveces = 0 /\ aprev = NoDf /\ ares = NoDf
    /\ job = "" /\ jpc = "idle" /\ jIntento = 0 /\ destino = "none" /\ tmp = "none"
    /\ lecturas = 0 /\ lDormido = 0 /\ alEntrar = NoEntrada /\ causa = "none"
    /\ sobrescrito = FALSE /\ expLog = <<>> /\ alInicio = "none" /\ cargando = "none"
    /\ script = 0 /\ mpc = "idle" /\ jobIdx = 0 /\ mIntento = 0 /\ esperaIdx = 0
    /\ navegado = FALSE /\ terminados = <<>> /\ agotado = NoAgotado /\ logueado = FALSE
    /\ exitoDicho = FALSE /\ logins = 0 /\ codigos = <<NoCode, NoCode>> /\ salida = NoCode
    /\ escritos = 0

SpecPoll == InitPoll /\ [][PollNext]_vars

InitExtract ==
    /\ nombre_reporte = "" /\ rpc = "idle" /\ intento = 0 /\ ultimo_error = None
    /\ fnLog = <<>> /\ sleepLog = <<>> /\ retVal = None /\ raisedErr = None
    /\ helper = "" /\ cpc = "idle" /\ estrategia = 0
    /\ attemptLog = <<>> /\ clicks = 0 /\ surfaced = <<>>
    /\ wait = NoWait /\ ppc = "idle"
    /\ now = 0 /\ polls = 0 /\ pSleeps = 0 /\ evalTime = 0
    /\ lastCond = "none" /\ sawRaise = FALSE
    /\ ultimo_tam = -1 /\ antObs = NoObs /\ prevObs = NoObs /\ curObs = NoObs
    /\ sawData = FALSE
    /\ ultimo_result = "None" /\ pDf = NoDf
    \* a page with its tables, no extraction applied yet
    /\ page \in Pages /\ xfn = "" /\ xres = NoOutcome
    /\ adf = NoDf /\ aveces = 0 /\ aprev = NoDf /\ ares = NoDf
    /\ job = "" /\ jpc = "idle" /\ jIntento = 0 /\ destino = "none" /\ tmp = "none"
    /\ lecturas = 0 /\ lDormido = 0 /\ alEntrar = NoEntrada /\ causa = "none"
    /\ sobrescrito = FALSE /\ expLog = <<>> /\ alInicio = "none" /\ cargando = "none"
    /\ script = 0 /\ mpc = "idle" /\ jobIdx = 0 /\ mIntento = 0 /\ esperaIdx = 0
    /\ navegado = FALSE /\ terminados = <<>> /\ agotado = NoAgotado /\ logueado = FALSE
    /\ exitoDicho = FALSE /\ logins = 0 /\ codigos = <<NoCode, NoCode>> /\ salida = NoCode
    /\ escritos = 0

SpecExtract == InitExtract /\ [][ExtNext]_vars

InitAplanar ==
    /\ nombre_reporte = "" /\ rpc = "idle" /\ intento = 0 /\ ultimo_error = None
    /\ fnLog = <<>> /\ sleepLog = <<>> /\ retVal = None /\ raisedErr = None
    /\ helper = "" /\ cpc = "idle" /\ estrategia = 0
    /\ attemptLog = <<>> /\ clicks = 0 /\ surfaced = <<>>
    /\ wait = NoWait /\ ppc = "idle"
    /\ now = 0 /\ polls = 0 /\ pSleeps = 0 /\ evalTime = 0
    /\ lastCond = "none" /\ sawRaise = FALSE
    /\ ultimo_tam = -1 /\ antObs = NoObs /\ prevObs = NoObs /\ curObs = NoObs
    /\ sawData = FALSE
    /\ ultimo_result = "None" /\ pDf = NoDf
    /\ page = <<>> /\ xfn = "" /\ xres = NoOutcome
    \* a frame as read_html gave it, aplanar_columnas not applied yet
    /\ \E n \in 1..MaxCols :
          \/ \E cols \in MultiHeaders(n) : adf = DataFrame(2, TRUE, cols)
          \/ \E cols \in PlainHeaders(n) : adf = DataFrame(2, FALSE, cols)
    /\ aveces = 0 /\ aprev = NoDf /\ ares = NoDf
    /\ job = "" /\ jpc = "idle" /\ jIntento = 0 /\ destino = "none" /\ tmp = "none"
    /\ lecturas = 0 /\ lDormido = 0 /\ alEntrar = NoEntrada /\ causa = "none"
    /\ sobrescrito = FALSE /\ expLog = <<>> /\ alInicio = "none" /\ cargando = "none"
    /\ script = 0 /\ mpc = "idle" /\ jobIdx = 0 /\ mIntento = 0 /\ esperaIdx = 0
    /\ navegado = FALSE /\ terminados = <<>> /\ agotado = NoAgotado /\ logueado = FALSE
    /\ exitoDicho = FALSE /\ logins = 0 /\ codigos = <<NoCode, NoCode>> /\ salida = NoCode
    /\ escritos = 0

SpecAplanar == InitAplanar /\ [][AplNext]_vars

InitDescarga ==
    /\ nombre_reporte = "" /\ rpc = "idle" /\ intento = 0 /\ ultimo_error = None
    /\ fnLog = <<>> /\ sleepLog = <<>> /\ retVal = None /\ raisedErr = None
    /\ helper = "" /\ cpc = "idle" /\ estrategia = 0
    /\ attemptLog = <<>> /\ clicks = 0 /\ surfaced = <<>>
    /\ wait = NoWait /\ ppc = "idle"
    /\ now = 0 /\ polls = 0 /\ pSleeps = 0 /\ evalTime = 0
    /\ lastCond = "none" /\ sawRaise = FALSE
    /\ ultimo_tam = -1 /\ antObs = NoObs /\ prevObs = NoObs /\ curObs = NoObs
    /\ sawData = FALSE
    /\ ultimo_result = "None" /\ pDf = NoDf
    /\ page = <<>> /\ xfn = "" /\ xres = NoOutcome
    /\ adf = NoDf /\ aveces = 0 /\ aprev = NoDf /\ ares = NoDf
    \* ejecutar_con_reintentos calls the job for the first time; the target path
    \* is free or holds the artifact of an earlier run
    /\ job \in Trabajos /\ jpc = "previo" /\ jIntento = 1
    /\ destino \in {"none", "old"} /\ tmp = "none"
    /\ lecturas = 0 /\ lDormido = 0 /\ alEntrar = NoEntrada /\ causa = "none"
    /\ sobrescrito = FALSE /\ expLog = <<>> /\ alInicio = destino /\ cargando = "none"
    /\ script = 0 /\ mpc = "idle" /\ jobIdx = 0 /\ mIntento = 0 /\ esperaIdx = 0
    /\ navegado = FALSE /\ terminados = <<>> /\ agotado = NoAgotado /\ logueado = FALSE
    /\ exitoDicho = FALSE /\ logins = 0 /\ codigos = <<NoCode, NoCode>> /\ salida = NoCode
    /\ escritos = 0

SpecDescarga == InitDescarga /\ [][DescNext]_vars

InitMain ==
    /\ nombre_reporte = "" /\ rpc = "idle" /\ intento = 0 /\ ultimo_error = None
    /\ fnLog = <<>> /\ sleepLog = <<>> /\ retVal = None /\ raisedErr = None
    /\ helper = "" /\ cpc = "idle" /\ estrategia = 0
    /\ attemptLog = <<>> /\ clicks = 0 /\ surfaced = <<>>
    /\ wait = NoWait /\ ppc = "idle"
    /\ now = 0 /\ polls = 0 /\ pSleeps = 0 /\ evalTime = 0
    /\ lastCond = "none" /\ sawRaise = FALSE
    /\ ultimo_tam = -1 /\ antObs = NoObs /\ prevObs = NoObs /\ curObs = NoObs
    /\ sawData = FALSE
    /\ ultimo_result = "None" /\ pDf = NoDf
    /\ page = <<>> /\ xfn = "" /\ xres = NoOutcome
    /\ adf = NoDf /\ aveces = 0 /\ aprev = NoDf /\ ares = NoDf
    /\ job = "" /\ jpc = "idle" /\ jIntento = 0 /\ destino = "none" /\ tmp = "none"
    /\ lecturas = 0 /\ lDormido = 0 /\ alEntrar = NoEntrada /\ causa = "none"
    /\ sobrescrito = FALSE /\ expLog = <<>> /\ alInicio = "none" /\ cargando = "none"
    \* run_todos_los_reportes has started its first script
    /\ script = 1 /\ mpc = "config" /\ jobIdx = 0 /\ mIntento = 0 /\ esperaIdx = 0
    /\ navegado = FALSE /\ terminados = <<>> /\ agotado = NoAgotado /\ logueado = FALSE
    /\ exitoDicho = FALSE /\ logins = 0 /\ codigos = <<NoCode, NoCode>> /\ salida = NoCode
    /\ escritos = 0

SpecMain == InitMain /\ [][MainNext]_vars

\* The run keeps executing: time advances and every call returns or raises.
SpecMainFair == SpecMain /\ WF_vars(MainNext)

\* ========================================================================
\* Properties
\* ========================================================================

NumFails(log) == Cardinality({i \in 1..Len(log) : ~log[i].ok})
NumOks(log) == Cardinality({i \in 1..Len(log) : log[i].ok})

\* C1: ejecutar_con_reintentos returns the result of the first invocation of fn
\* that does not raise, never invokes fn again after a successful invocation,
\* and invokes fn at most 3 times whatever fn does.
C1_FirstSuccessReturned ==
    /\ Len(fnLog) <= 3
    /\ \A i \in 1..Len(fnLog) :
         fnLog[i].ok => /\ i = Len(fnLog)
                        /\ rpc = "returned"
                        /\ retVal = fnLog[i].val
    /\ rpc = "returned" => /\ Len(fnLog) >= 1
                           /\ fnLog[Len(fnLog)].ok

C1_Witness ==
    /\ rpc = "returned"
    /\ Len(fnLog) = 2
    /\ ~fnLog[1].ok
    /\ retVal = fnLog[2].val

\* C2: a job that fails on its first k attempts and then succeeds (k < 3) makes
\* the wrapper return the success result after exactly k failures, 1 success and
\* k sleeps of 5 seconds (one after each failure, none after the success).
C2_FailsThenSuccess ==
    rpc = "returned" =>
        LET k == Len(fnLog) - 1 IN
        /\ k \in 0..2
        /\ \A i \in 1..k : ~fnLog[i].ok
        /\ NumFails(fnLog) = k
        /\ NumOks(fnLog) = 1
        /\ sleepLog = [i \in 1..k |-> 5]
        /\ retVal = fnLog[k + 1].val

C2_Witness ==
    /\ rpc = "returned"
    /\ Len(fnLog) = 3
    /\ NumFails(fnLog) = 2
    /\ Len(sleepLog) = 2

\* C3: a job that fails on every attempt is invoked exactly 3 times, the wrapper
\* sleeps exactly twice (not after the last attempt) and then raises one error
\* that carries the 3rd failure, not an earlier one.
C3_ExhaustedCarriesLast ==
    /\ rpc = "raised" =>
         /\ Len(fnLog) = 3
         /\ NumFails(fnLog) = 3
         /\ sleepLog = <<5, 5>>
         /\ raisedErr = fnLog[3].err
         /\ retVal = None
    /\ (Len(fnLog) = 3 /\ NumFails(fnLog) = 3) => rpc = "raised"
    /\ (rpc = "loop" /\ NumFails(fnLog) = Len(fnLog)) => Len(sleepLog) = Len(fnLog)

C3_Witness ==
    /\ rpc = "raised"
    /\ fnLog[1].err # fnLog[3].err
    /\ fnLog[2].err # fnLog[3].err
    /\ raisedErr = fnLog[3].err

\* C4: in each multi-strategy click helper, when every strategy before the last
\* raises and the last one succeeds, the helper returns normally having clicked
\* through that strategy, and no failure of an earlier strategy reaches the caller.
C4_LaterStrategySucceeds ==
    /\ \A k \in 1..Len(surfaced) : surfaced[k].kind # "strategy"
    /\ (attemptLog # <<>> /\ attemptLog[Len(attemptLog)].ok) =>
         /\ cpc = "returned"
         /\ surfaced = <<>>
         /\ attemptLog[Len(attemptLog)].idx = Len(attemptLog)
         /\ \A k \in 1..(Len(attemptLog) - 1) : ~attemptLog[k].ok
    /\ cpc = "returned" => (attemptLog # <<>> /\ attemptLog[Len(attemptLog)].ok)

C4_Witness ==
    /\ helper = "click_tab_membresia"
    /\ cpc = "returned"
    /\ Len(attemptLog) = 6
    /\ NumFails(attemptLog) = 5
    /\ attemptLog[6].ok

\* The number of strategies the claims give for each helper.
ExpectedStrategies(h) ==
    CASE h = "click_boton_generar" -> 3
      [] h = "click_boton_generar_ingresos" -> 3
      [] h = "click_tab" -> 2
      [] h = "click_tab_membresia" -> 6

\* C5: when every strategy of a click helper fails, the helper raises exactly one
\* RuntimeError after each strategy was attempted exactly once, and no click
\* counts as successful.
C5_AllFailRaisesOnce ==
    /\ Len(surfaced) <= 1
    /\ cpc = "raised" =>
         /\ surfaced = <<RuntimeError>>
         /\ Len(attemptLog) = ExpectedStrategies(helper)
         /\ \A k \in 1..Len(attemptLog) : attemptLog[k].idx = k /\ ~attemptLog[k].ok
         /\ clicks = 0
    /\ (helper # "" /\ NumFails(attemptLog) = ExpectedStrategies(helper)) => cpc = "raised"

C5_Witness ==
    /\ helper = "click_tab_membresia"
    /\ cpc = "raised"
    /\ Len(attemptLog) = 6
    /\ clicks = 0

\* C6: in every polling wait an exception raised while the awaited condition is
\* evaluated counts as "false" for that poll: after such a poll the wait is
\* still polling, or it ended because its timeout elapsed.
C6_PollExceptionIsFalse ==
    lastCond = "raise" =>
        \/ ppc = "poll"
        \/ ppc = "timeout" /\ now >= wait.timeout

\* C7 as stated: esperar_tabla and esperar_tabla_con_registros return normally
\* only at a poll at which the condition evaluated true, and with the condition
\* false on the first 3 polls and true on the 4th they return after exactly 3
\* sleeps, at an elapsed time of at least 3 s and less than 4 s.
C7_ReturnsWithinFourSeconds ==
    (wait.fn \in {"esperar_tabla", "esperar_tabla_con_registros"} /\ ppc = "ok") =>
        /\ lastCond = "true"
        /\ polls = 4 => /\ pSleeps = 3
                        /\ now >= 3
                        /\ now < 4

\* C7 (amended): esperar_tabla and esperar_tabla_con_registros return normally
\* only at a poll at which the condition evaluated true, one sleep after each
\* earlier poll; with the condition true for the first time at the 4th poll
\* they return after exactly 3 one-second sleeps, at an elapsed time of at
\* least 3 s and less than 4 s plus the time the four evaluations took.
C7_NeverReturnsEarly ==
    (wait.fn \in {"esperar_tabla", "esperar_tabla_con_registros"} /\ ppc = "ok") =>
        /\ lastCond = "true"
        /\ pSleeps = polls - 1
        /\ now >= polls - 1
        /\ now < polls + evalTime
        /\ polls = 4 => /\ pSleeps = 3
                        /\ now >= 3
                        /\ now < 4 + evalTime
                        /\ evalTime = 0 => now < 4

C7_Witness ==
    /\ wait.fn = "esperar_tabla_con_registros"
    /\ ppc = "ok"
    /\ polls = 4
    /\ ~sawRaise
    /\ evalTime = 0
    /\ now = 3

\* C8: when the condition never becomes true, esperar_tabla,
\* esperar_tabla_con_registros, obtener_tabla_con_sucursal and
\* esperar_archivo_descarga report the timeout only once the configured timeout
\* has elapsed, and they never report success.
C8_TimeoutNotBefore ==
    wait.fn \in {"esperar_tabla", "esperar_tabla_con_registros",
                 "obtener_tabla_con_sucursal", "esperar_archivo_descarga"} =>
        /\ ppc = "timeout" => (now >= wait.timeout /\ lastCond # "true")
        /\ ppc = "poll" => lastCond # "true"
        /\ ppc = "ok" => lastCond = "true"
        /\ (ppc = "ok" /\ wait.fn = "esperar_archivo_descarga") => curObs > 0
        /\ (ppc = "ok" /\ wait.fn = "obtener_tabla_con_sucursal") => pDf # NoDf

C8_Witness ==
    /\ wait = Wait("esperar_archivo_descarga", 900, 15)
    /\ ppc = "timeout"
    /\ now = 900
    /\ polls = 60

\* The positions <<table, frame>> of the non-empty DataFrames of a page.
NonEmptyAt(tables) ==
    { q \in (1..Len(tables)) \X (1..2) :
        /\ ~tables[q[1]].err
        /\ q[2] <= Len(tables[q[1]].dfs)
        /\ tables[q[1]].dfs[q[2]].filas > 0
        /\ Len(tables[q[1]].dfs[q[2]].columns) > 0 }

Cells(tables, q) == tables[q[1]].dfs[q[2]].filas * Len(tables[q[1]].dfs[q[2]].columns)

\* The candidate set of the examples: grids of 2x3, 5x4 and 1x10, 'Sucursal'
\* only in the header of the 1x10 grid.
ExamplePage == << Tabla(<<G2x3>>), Tabla(<<G5x4>>), Tabla(<<G1x10S>>) >>

\* C9: without a required column, extraer_tabla_html and
\* extraer_tabla_principal_venta_total return a grid whose rows x columns is the
\* maximum over all non-empty grids parsed from the tables of the page; for
\* grids of 2x3, 5x4 and 1x10 that is the 5x4 grid.
C9_LargestGridWins ==
    xfn \in {"extraer_tabla_html", "extraer_tabla_principal_venta_total"} =>
        /\ NonEmptyAt(page) = {} => xres.status \in {"no_tables", "no_principal"}
        /\ NonEmptyAt(page) # {} =>
             /\ xres.status = "ok"
             /\ xres.at \in NonEmptyAt(page)
             /\ xres.df.filas = page[xres.at[1]].dfs[xres.at[2]].filas
             /\ Len(xres.df.columns) = Len(page[xres.at[1]].dfs[xres.at[2]].columns)
             /\ \A q \in NonEmptyAt(page) : Cells(page, xres.at) >= Cells(page, q)
        /\ page = ExamplePage => xres.df = G5x4

C9_Witness ==
    /\ page = ExamplePage
    /\ xfn = "extraer_tabla_html"
    /\ xres.status = "ok"
    /\ xres.df.filas = 5
    /\ Len(xres.df.columns) = 4

\* C10: the grid obtener_tabla_con_sucursal returns always has a flattened
\* column label that contains 'sucursal' case-insensitively; a grid without one
\* is never returned even when its score is higher (2x3, 5x4, 1x10 with
\* 'Sucursal' only in the 1x10 header: the 1x10 grid is returned).
C10_ReturnedGridHasSucursal ==
    (xfn = "obtener_tabla_con_sucursal" /\ xres.status = "ok") =>
        /\ ~xres.df.multi
        /\ \E k \in 1..Len(xres.df.columns) : Contains(L_sucursal, Lower(xres.df.columns[k]))
        /\ xres.at \in NonEmptyAt(page)
        /\ xres.df.filas = page[xres.at[1]].dfs[xres.at[2]].filas
        /\ page = ExamplePage => xres.df = G1x10S

C10_Witness ==
    /\ page = ExamplePage
    /\ xfn = "obtener_tabla_con_sucursal"
    /\ xres.status = "ok"
    /\ xres.df.filas = 1
    /\ Len(xres.df.columns) = 10

\* The positions of the non-empty DataFrames of a page whose flattened header
\* has a label containing 'sucursal', whatever the case.
Survivors(tables) ==
    { q \in NonEmptyAt(tables) :
        LET df == aplanar_columnas(tables[q[1]].dfs[q[2]])
        IN  \E k \in 1..Len(df.columns) : Contains(L_sucursal, Lower(df.columns[k])) }

\* Document order of two positions <<table, frame>>.
Before(p, q) == p[1] < q[1] \/ (p[1] = q[1] /\ p[2] < q[2])

\* C11 as stated: with several non-empty grids whose header contains
\* 'sucursal', obtener_tabla_con_sucursal returns the one whose rows x columns
\* is the maximum among them.
C11_MaxAmongSurvivors ==
    (xfn = "obtener_tabla_con_sucursal" /\ Cardinality(Survivors(page)) >= 2) =>
        /\ xres.status = "ok"
        /\ xres.at \in Survivors(page)
        /\ \A q \in Survivors(page) : Cells(page, xres.at) >= Cells(page, q)

\* C11 (amended): with several non-empty grids whose header contains
\* 'sucursal', obtener_tabla_con_sucursal returns the first of them in document
\* order (flattened), whatever their scores.
C11_FirstSurvivorWins ==
    (xfn = "obtener_tabla_con_sucursal" /\ Cardinality(Survivors(page)) >= 2) =>
        /\ xres.status = "ok"
        /\ xres.at \in Survivors(page)
        /\ \A q \in Survivors(page) : q = xres.at \/ Before(xres.at, q)
        /\ xres.df = aplanar_columnas(page[xres.at[1]].dfs[xres.at[2]])

\* Two grids with 'Sucursal', the 1x10 one before the 4x5 one: the 1x10 grid
\* (score 10, not 20) is returned.
C11_Witness ==
    /\ page = << Tabla(<<G1x10S>>), Tabla(<<G4x5U>>) >>
    /\ xfn = "obtener_tabla_con_sucursal"
    /\ xres.status = "ok"
    /\ xres.at = <<1, 1>>
    /\ xres.df.filas = 1

\* C12: table extraction never returns an empty grid: what it returns has rows
\* and columns; with no table on the page, or only empty and unreadable tables,
\* extraer_tabla_html and extraer_tabla_principal_venta_total raise not-found;
\* and a table that cannot be parsed is skipped, the other tables still count.
C12_NeverEmptyGrid ==
    /\ xres.status = "ok" =>
          /\ xres.df # NoDf
          /\ xres.df.filas > 0
          /\ Len(xres.df.columns) > 0
    /\ xfn \in {"extraer_tabla_html", "extraer_tabla_principal_venta_total"} =>
          /\ Len(page) = 0 => xres.status = "no_tables"
          /\ (Len(page) > 0 /\ NonEmptyAt(page) = {}) =>
                (xres.status = "no_principal" /\ xres.df = NoDf)
          /\ ((\E i \in 1..Len(page) : page[i].err) /\ NonEmptyAt(page) # {}) =>
                (xres.status = "ok" /\ xres.at \in NonEmptyAt(page))

\* An unreadable table, then a table without rows, then a 5x4 grid: the 5x4
\* grid is returned.
C12_Witness ==
    /\ page = << TablaError, Tabla(<<G0x3S>>), Tabla(<<G5x4>>) >>
    /\ xfn = "extraer_tabla_html"
    /\ xres.status = "ok"
    /\ xres.at = <<3, 1>>
    /\ xres.df = G5x4

Spaces(n) == [k \in 1..n |-> " "]

\* t is str without the blanks around it.
IsStripOf(t, str) ==
    /\ t = <<>> \/ (t[1] # " " /\ t[Len(t)] # " ")
    /\ \E a \in 0..Len(str), b \in 0..Len(str) : str = Spaces(a) \o t \o Spaces(b)

\* label is what a multi-level header col stands for: its innermost segment
\* that is not missing, without the blanks around it; 'col_sin_nombre' when
\* every segment is missing.
IsInnermostLabel(label, col) ==
    LET present == { m \in 1..Len(col) : col[m] # L_nan }
    IN  IF present = {} THEN label = L_col_sin_nombre
        ELSE IsStripOf(label, col[CHOOSE m \in present : \A n \in present : n <= m])

\* The two-level header of the example.
ExampleHeader == DataFrame(2, TRUE, << <<L_MetaCNM, L_NumeroCNM>>, <<L_MetaCNM, L_Porcentaje>> >>)

\* C13: aplanar_columnas gives every multi-level column exactly one label, its
\* innermost non-missing segment stripped ('col_sin_nombre' when all segments
\* are missing), keeps the number and order of columns and the rows, leaves a
\* single-level header as it is, and applied twice gives what one application
\* gives; the header of the example becomes 'Numero de CNM (Meta)', 'Porcentaje'.
C13_InnermostLabel ==
    aveces >= 1 =>
        /\ ~ares.multi
        /\ ares.filas = aprev.filas
        /\ Len(ares.columns) = Len(aprev.columns)
        /\ aprev.multi =>
              \A k \in 1..Len(aprev.columns) : IsInnermostLabel(ares.columns[k], aprev.columns[k])
        /\ ~aprev.multi => ares = aprev
        /\ aveces = 2 => ares = aprev
        /\ adf = ExampleHeader => ares.columns = <<L_NumeroCNM, L_Porcentaje>>

C13_Witness ==
    /\ adf = ExampleHeader
    /\ aveces = 2
    /\ aprev = ares
    /\ ares.columns = <<L_NumeroCNM, L_Porcentaje>>

\* C14: esperar_archivo_descarga returns ok at the first poll that finds the
\* file with a size above zero equal to the size the poll before it found: one
\* such reading is enough, it returns only on a size above zero it had already
\* recorded, and for the sizes 0, 120, 120 it returns at the third poll, after
\* two sleeps, and not at the second.
C14_StableReadingReturns ==
    wait.fn = "esperar_archivo_descarga" =>
        /\ (curObs > 0 /\ curObs = prevObs) => ppc = "ok"
        /\ ppc = "ok" => (lastCond = "true" /\ curObs > 0 /\ curObs = ultimo_tam)
        /\ (polls = 2 /\ prevObs = 0 /\ curObs = 120) => ppc = "poll"
        /\ (polls = 3 /\ antObs = 0 /\ prevObs = 120 /\ curObs = 120) =>
              /\ ppc = "ok"
              /\ pSleeps = 2
              /\ now >= 2 * wait.intervalo

C14_Witness ==
    /\ wait.fn = "esperar_archivo_descarga"
    /\ polls = 3
    /\ antObs = 0
    /\ prevObs = 120
    /\ curObs = 120
    /\ ppc = "ok"

\* C15: esperar_archivo_descarga declares the file stable only if the poll
\* right before the last one also found the file, with the same size.
C15_PrecedingPollSameSize ==
    (wait.fn = "esperar_archivo_descarga" /\ ppc = "ok") =>
        /\ prevObs > 0
        /\ prevObs = curObs

\* C16: esperar_archivo_descarga never declares a file of size zero stable;
\* while every poll found no file or a file of size zero the wait has not
\* returned, it polls at most timeout / intervalo times, and it ends only with
\* the timeout error, raised once the timeout has elapsed.
C16_ZeroSizeNeverStable ==
    wait.fn = "esperar_archivo_descarga" =>
        /\ ppc = "ok" => (curObs > 0 /\ ultimo_tam > 0)
        /\ (~sawData /\ ~sawRaise) =>
              /\ ppc \in {"poll", "timeout"}
              /\ ultimo_tam \in {-1, 0}
              /\ polls * wait.intervalo <= now
              /\ polls * wait.intervalo < wait.timeout + wait.intervalo
              /\ ppc = "timeout" => now >= wait.timeout

C16_Witness ==
    /\ wait.fn = "esperar_archivo_descarga"
    /\ ppc = "timeout"
    /\ ~sawData
    /\ ~sawRaise
    /\ prevObs = 0
    /\ curObs = 0
    /\ now >= wait.timeout

\* C17: limpiar_excel_inplace tries to read the artifact at most 3 times, with
\* the same 10 s sleep after every failed read; when the 3 reads fail it returns
\* normally (the job returns, nothing is raised) and the file at the path and
\* the temporary path are as they were when it was entered.
C17_ThreeReadsThenUnchanged ==
    /\ lecturas <= LIMPIAR_INTENTOS
    /\ lDormido = lecturas * LIMPIAR_DELAY
    /\ (lecturas >= 1 /\ jpc = "leer") => (destino = alEntrar[1] /\ tmp = alEntrar[2])
    /\ lecturas = LIMPIAR_INTENTOS =>
          /\ jpc = "returned"
          /\ destino = alEntrar[1]
          /\ destino \in {"old", "fresh"}
          /\ tmp = alEntrar[2]
          /\ jIntento = 1 => (tmp = "none" /\ causa = "none")

C17_Witness ==
    /\ job = "corte_caja"
    /\ lecturas = 3
    /\ lDormido = 30
    /\ jpc = "returned"
    /\ jIntento = 1
    /\ destino = "fresh"
    /\ tmp = "none"

\* C18: no failure of the cleanup pass run after the artifact was obtained
\* (read, write of the temporary file, delete, rename) makes the job's attempt
\* fail, be retried or end in the exhausted error.
C18_CleanupNeverFailsJob ==
    jpc \in {"fallo", "exhausted"} => causa \notin {"leer", "escribir", "unlink", "rename"}

\* C19: from the moment the cleanup is entered, in every state, crashes and
\* failures included, the target path holds the complete original artifact or
\* the complete cleaned one.
C19_AtomicReplace ==
    (Limpia(job) /\ alEntrar # NoEntrada) => destino \in {alEntrar[1], "clean"}

\* C20: a fresh artifact is never written at a target path that holds a file:
\* whatever was there has been removed before.
C20_NeverWrittenOver == ~sobrescrito

\* C21: retry exhaustion is never swallowed.  Once a job has used up its
\* attempts, the script reports no success and runs nothing further, its main
\* logs the error and exits with a non-zero status, and
\* run_todos_los_reportes ends with that same status without having started
\* the following script.
C21_ExhaustionNeverSwallowed ==
    agotado # NoAgotado =>
        /\ script = agotado[1]
        /\ jobIdx = agotado[2]
        /\ ~exitoDicho
        /\ mpc \in {"except", "exited", "done"}
        /\ mpc \in {"exited", "done"} =>
             /\ logueado
             /\ codigos[script] \notin {0, NoCode}
        /\ mpc = "done" => (salida = codigos[script] /\ salida # 0)
        /\ \A s \in 1..Len(Guiones) : s > agotado[1] => codigos[s] = NoCode

C21_Witness ==
    /\ agotado = <<1, 2>>
    /\ mpc = "done"
    /\ logueado
    /\ codigos = <<1, NoCode>>
    /\ salida = 1

\* C22: the jobs of a script run one after the other in the order of main.
\* While job k runs, exactly the jobs 1..k-1 have returned, each once and in
\* order; a step changes the job only by going from a job that returned to the
\* next one; after a failure the same job is attempted again (or main's
\* handler is entered) and the jobs that returned are left as they are.
C22_SequentialAndIsolated ==
    /\ [](mpc \in {"goto", "esperando", "fallo"} =>
            /\ jobIdx \in 1..Len(JobsDe(script))
            /\ terminados = [k \in 1..(jobIdx - 1) |-> k])
    /\ [][(script' = script /\ jobIdx' # jobIdx /\ jobIdx > 0) =>
            /\ mpc = "esperando" /\ ppc = "ok"
            /\ jobIdx' = jobIdx + 1
            /\ terminados' = Append(terminados, jobIdx)
            /\ mIntento' = 1]_vars
    /\ [][mpc = "fallo" =>
            /\ jobIdx' = jobIdx
            /\ terminados' = terminados
            /\ mpc' \in {"fallo", "goto", "except"}]_vars

C22_Witness ==
    /\ script = 2
    /\ jobIdx = 2
    /\ mIntento = 2
    /\ mpc = "esperando"
    /\ terminados = <<1>>

C29_AttemptStartsWithNavigation ==
    /\ mpc = "goto" =>
         /\ ~navegado
         /\ esperaIdx = 0
         /\ wait = NoWait /\ ppc = "idle" /\ polls = 0 /\ now = 0
         /\ pDf = NoDf /\ ultimo_tam = -1 /\ ultimo_result = "None"
    /\ mpc = "esperando" => (navegado /\ esperaIdx >= 1)

C29_Witness ==
    /\ script = 1
    /\ jobIdx = 2
    /\ JobActual = "descargar_kpi_desempeno"
    /\ mIntento = 3
    /\ mpc = "esperando"
    /\ esperaIdx = 2
    /\ navegado

\* C23: in esperar_fin_carga_venta_total, 'Cargando...' not showing up within
\* its 10 s is no error: the wait has returned and the job is past it, and an
\* attempt fails in this wait only when the indicator showed up and was not
\* detached within the timeout.
C23_NoIndicatorIsNotAnError ==
    /\ cargando \in {"no_visto", "desaparecio"} =>
         /\ jpc \notin {"previo", "fin_carga", "fin_carga2"}
         /\ ~(jpc = "fallo" /\ causa = "fin_carga")
    /\ (jpc = "fallo" /\ causa = "fin_carga") => cargando = "colgado"
    /\ cargando # "none" => job = "venta_total"

C23_Witness ==
    /\ job = "venta_total"
    /\ cargando = "no_visto"
    /\ jpc = "returned"
    /\ jIntento = 1

\* C25: when every strategy of a click helper failed, the error the helper
\* raises names the strategies that were attempted.
C25_ErrorListsStrategies ==
    cpc = "raised" =>
        EstrategiasEnError(helper) =
            [k \in 1..Len(attemptLog) |-> Strategies(helper)[attemptLog[k].idx]]

\* C26: a click helper tries its strategies in the declared order, strategy j
\* only after 1..j-1 failed, and nothing after a strategy succeeded: at most one
\* click per call.  click_tab_membresia tries role, link, text with the
\* accented spelling and then role, link, text with the plain one.
C26_DeclaredOrderStopAtFirstSuccess ==
    /\ \A k \in 1..Len(attemptLog) :
         /\ attemptLog[k].idx = k
         /\ k <= NumStrategies(helper)
         /\ \A m \in 1..(k - 1) : ~attemptLog[m].ok
    /\ clicks <= 1
    /\ clicks = NumOks(attemptLog)
    /\ cpc = "try" => (estrategia = Len(attemptLog) + 1 /\ clicks = 0)
    /\ Strategies("click_tab_membresia") =
         << "get_by_role(button, Membresia+tilde)", "a:has-text(Membresia+tilde)",
            "get_by_text(Membresia+tilde)",
            "get_by_role(button, Membresia)", "a:has-text(Membresia)",
            "get_by_text(Membresia)" >>

C26_Witness ==
    /\ helper = "click_tab_membresia"
    /\ cpc = "returned"
    /\ Len(attemptLog) = 4
    /\ attemptLog[4].ok
    /\ clicks = 1
    /\ Strategies(helper)[4] = "get_by_role(button, Membresia)"

\* C27: when acting on Exportar through the role locator failed, the locator
\* by text is acted through in the same attempt.
C27_SecondExportStrategyTried ==
    \A k \in 1..Len(expLog) :
        (expLog[k].via = "role" /\ ~expLog[k].ok) =>
            \E m \in (k + 1)..Len(expLog) : expLog[m].via = "text"

\* C28: among the non-empty grids with the maximal score, extraer_tabla_html
\* and extraer_tabla_principal_venta_total return the first in page order: no
\* grid before the returned one has a score as high, none after it a higher one.
C28_FirstMaxWins ==
    (xfn \in {"extraer_tabla_html", "extraer_tabla_principal_venta_total"}
       /\ xres.status = "ok") =>
        \A q \in NonEmptyAt(page) :
            /\ Before(q, xres.at) => Cells(page, q) < Cells(page, xres.at)
            /\ Before(xres.at, q) => Cells(page, q) <= Cells(page, xres.at)

C28_Witness ==
    /\ page = << Tabla(<<G2x3>>), Tabla(<<G5x4>>), Tabla(<<G4x5U>>) >>
    /\ xfn = "extraer_tabla_html"
    /\ xres.status = "ok"
    /\ xres.at = <<2, 1>>
    /\ Cells(page, <<3, 1>>) = Cells(page, <<2, 1>>)

\* C30: in descargar_excel_desde_tabla the file found at the target path is
\* touched only once the download has been obtained: up to that point, and when
\* the attempt fails at the tab, at Exportar or because no download started,
\* the target path holds what it held when the attempt began.
C30_TargetKeptUntilDownload ==
    UsaTabla(job) =>
        /\ jpc \in {"previo", "exportar", "descarga"} => destino = alInicio
        /\ (jpc = "fallo" /\ causa \in {"previo", "exportar", "descarga"}) =>
             destino = alInicio

C30_Witness ==
    /\ job = "corte_caja"
    /\ jpc = "fallo"
    /\ causa = "descarga"
    /\ alInicio = "old"
    /\ destino = "old"

\* C35: seleccionar_tipo_reporte returns normally only when its latest
\* evaluation gave 'ok'; after 'no-selects' or 'no-option' it sleeps one second
\* and evaluates again; when the 20 s are over without an 'ok' it raises an
\* error that carries the result of the latest evaluation.
C35_ReturnsOnlyAfterOk ==
    wait.fn = "seleccionar_tipo_reporte" =>
        /\ ppc = "ok" => (ultimo_result = "ok" /\ lastCond = "true" /\ polls >= 1)
        /\ (ppc = "poll" /\ polls >= 1) =>
             /\ ultimo_result \in {"no-selects", "no-option"}
             /\ pSleeps = polls
             /\ now = evalTime + polls * POLL_SLEEP
        /\ ppc = "timeout" =>
             /\ now >= TIPO_REPORTE_TIMEOUT
             /\ polls >= 1
             /\ lastCond = "false"
             /\ ErrorSeleccionar(ultimo_result).ultimo \in {"no-selects", "no-option"}

C35_Witness ==
    /\ wait.fn = "seleccionar_tipo_reporte"
    /\ ppc = "timeout"
    /\ polls = TIPO_REPORTE_TIMEOUT
    /\ ultimo_result = "no-option"
    /\ ErrorSeleccionar(ultimo_result) = [kind |-> "RuntimeError", ultimo |-> "no-option"]

\* C34: each script calls hacer_login exactly once, before its first job: no
\* job runs before the login, no attempt of a job logs in again, and when the
\* login fails no job was given to ejecutar_con_reintentos and the script ends
\* with status 1.
C34_LoginOnceBeforeJobs ==
    /\ logins <= 1
    /\ mpc \in {"config", "login"} => (logins = 0 /\ jobIdx = 0 /\ terminados = <<>>)
    /\ mpc \in {"goto", "esperando", "fallo", "fin"} => (logins = 1 /\ jobIdx >= 1)
    /\ (logins = 1 /\ jobIdx = 0) =>
         /\ mpc \in {"except", "exited", "done"}
         /\ mIntento = 0 /\ ~navegado /\ terminados = <<>> /\ ~exitoDicho
         /\ mpc \in {"exited", "done"} => codigos[script] = 1
         /\ mpc = "done" => salida = 1

C34_Witness ==
    /\ script = 2
    /\ jobIdx = 2
    /\ mIntento = MAX_RETRIES
    /\ mpc = "esperando"
    /\ esperaIdx = 2
    /\ logins = 1

\* C31: reporte_direccion_ingresos.main writes none of its three output files
\* unless its three jobs have all returned: while a job is still to run or to
\* be retried nothing is written, and when a job used up its attempts the
\* process ends with status 1 and no file of this run exists, whatever jobs
\* had returned before.
C31_NoOutputUnlessAllJobsSucceeded ==
    script = 1 =>
        /\ escritos \in 0..3
        /\ escritos > 0 => (terminados = <<1, 2, 3>> /\ agotado = NoAgotado)
        /\ mpc \notin {"fin", "exited", "done"} => escritos = 0
        /\ agotado # NoAgotado =>
             /\ escritos = 0
             /\ mpc \in {"exited", "done"} => codigos[1] = 1
        /\ exitoDicho => escritos = 3

C31_Witness ==
    /\ script = 1
    /\ agotado = <<1, 3>>
    /\ terminados = <<1, 2>>
    /\ escritos = 0
    /\ mpc = "exited"
    /\ codigos[1] = 1

\* C32: once descargar_reporte_venta_total is in its stable-file wait, the
\* attempt fails there only because the wait timed out (or, the file having
\* been found stable, because the cleanup after it raised).
C32_VentaTotalFailsOnlyOnTimeout ==
    [][(/\ mpc = "esperando"
        /\ JobActual = "descargar_reporte_venta_total"
        /\ wait.fn = "esperar_archivo_descarga"
        /\ mpc' = "fallo")
       => ppc \in {"timeout", "ok"}]_vars

\* C33: the file descargar_reporte_venta_total takes as its artifact after the
\* stable-file wait was produced by the export of this attempt, never a
\* venta_total.xlsx that was at the path before.
C33_ArtifactIsFromThisAttempt ==
    (job = "venta_total" /\ jpc \in {"leer", "escribir", "unlink", "rename", "returned"}) =>
        alEntrar[1] = "fresh"

====
